---- MODULE Spec2Model ----
(***************************************************************************)
(* Model of the polling / dedup / dispatch core of HTB-Discord:            *)
(*   - DatabaseManager (utils/database.py): one durable key table per feed *)
(*   - MachineMonitor / ChallengeMonitor / NoticeMonitor (modules/*.py):   *)
(*     the poll -> check -> deliver -> insert -> sleep loop of each feed   *)
(*   - HTBDiscordService (service.py): start / stop of the watcher tasks,  *)
(*     and the supervisor: asyncio.wait, restart(), stop(), exit status    *)
(*   - LinkwardenForwarder (modules/linkwarden.py) and the links table     *)
(*                                                                         *)
(* Tasks are asyncio tasks: a task gives up control only at an await that  *)
(* really suspends, so each action below runs from one suspension point to *)
(* the next one.  requests.get and sqlite3 are blocking calls and do not   *)
(* suspend.                                                                *)
(***************************************************************************)
EXTENDS Integers, Sequences, FiniteSets, TLC

\* ------------------------------------------------------------------ bounds
MaxLen == 2          \* longest list the origin returns in one poll
MaxId == 2           \* record ids are 1..MaxId
DeliverCap == 2      \* the delivery counter saturates here
MaxLinks == 3        \* most rows the links table holds
MaxLimit == 2        \* largest links_per_batch / limit of get_unprocessed_links
MaxForwarders == 2   \* most LinkwardenForwarder objects created in one behaviour
MaxCollections == 2  \* most collections the Linkwarden service holds
MaxRestarts == 2     \* largest service.max_restarts
MaxReady == 2        \* most ready events of a standalone script's client
MaxSignals == 2      \* most shutdown signals the process receives

\* --------------------------------------------------------- program constants
DefaultPollInterval == 600
NoticePollInterval == 60
BackoffSeconds == 60
DefaultLinksPerBatch == 10
DefaultBatchInterval == 6
DefaultMaxRestarts == 5

Feeds == {"machines", "challenges", "notices"}
Ids == 1..MaxId
AllSteps == {"announce", "event", "thread"}
\* Names of the channels of the monitored categories, and the links posted there.
Channels == {"web", "pwn"}
LinkPayloads == {"https://a", "https://b", "https://c"}
\* The channels each link gets posted in.
PostedIn(link) ==
  CASE link = "https://a" -> {"web", "pwn"}
    [] link = "https://b" -> {"pwn"}
    [] link = "https://c" -> {"web"}
\* The order in which the links are posted for the first time.
FirstPosted == <<"https://a", "https://b", "https://c">>
Limits == -1..MaxLimit
\* features.<feed>.poll_interval of the generated configuration.
ConfiguredPollInterval(f) == IF f = "notices" THEN NoticePollInterval ELSE DefaultPollInterval

\* What a record returned by the origin looks like, as far as the code reads it:
\*   valid        every key present and non-empty
\*   empty_field  a required key other than id/name present but empty ("" / null)
\*   no_field     a metadata key other than id/name absent
\*   no_name      the 'name' key absent
\*   no_id        the 'id' key absent
Shapes == {"valid", "empty_field", "no_field", "no_name", "no_id"}

\* The shapes that make a difference to a feed's code path.
ShapesOf(f) ==
  CASE f = "machines"   -> {"valid", "no_field", "no_name", "no_id"}
    [] f = "challenges" -> {"valid", "empty_field", "no_field", "no_name", "no_id"}
    [] f = "notices"    -> {"valid", "no_id"}

VARIABLES
  enabled,        \* features.<feed>.enabled: the feeds the service watches
  features,       \* per feed: the delivery steps switched on by the feature flags
  poll_interval,  \* per feed: features.<feed>.poll_interval
  catalog,        \* the origin: the record it holds for each id of each feed
  dbFaults,       \* the environment: sqlite calls can fail (locked or unwritable file)
  clientReady,    \* the Discord client is ready (wait_until_ready returns)
  running,        \* per feed: the monitor's self.running
  pc,             \* per feed: where the monitor task is
  fetched,        \* per feed: the list the current poll fetched
  pos,            \* per feed: loop counter of the for loop of check_new_*
  step,           \* per feed: the delivery step the task is suspended in
  store,          \* per feed: rows of the feed's table (the Dedup Store)
  lastFetch,      \* per feed: outcome of the latest fetch: "none", "ok", "failed"
  examined,       \* per feed: history of the current poll: the records examined
  dlog,           \* per feed: history of the current poll: the deliveries
  prevDelivered,  \* per feed: ids delivered in the previous poll of this watcher
  deliverCount,   \* per feed and id: deliveries invoked so far (saturating)
  ret,            \* what the latest direct DatabaseManager call returned
  links,          \* rows of the links table (the Work Queue Store), in id order
  links_per_batch,\* features.linkwarden.rate_limit.links_per_batch
  forwarder,      \* the LinkwardenForwarder objects created so far, and their loop tasks
  collections,    \* the collections the Linkwarden service holds, in id order
  qret,           \* what the latest call of a links method returned
  forwarded,      \* the links whose POST /api/v1/links was answered with success
  drainRun,       \* history: the drain cycles completed without failure or enqueue
  max_restarts,   \* service.max_restarts
  restart_on_failure, \* service.restart_on_failure
  monitors,       \* the keys of self.monitors, in the order _initialize_modules fills it
  restart_count,  \* self.restart_count
  shutdown_event, \* self.shutdown_event is set
  starts,         \* how many times _run_discord_clients has created its tasks
  task,           \* per start and task name: the state of the asyncio task
  tasks,          \* self.tasks: the monitor tasks tracked so far, as <<start, name>>
  closes,         \* per start: how many times close() ran on the client of that start
  main,           \* the coroutine asyncio.run drives: start() and what it awaits
  stopper,        \* the invocations of stop(): 0 by the main coroutine, others by signals
  exit_status,    \* -1 while the process runs, else its exit status
  script          \* a standalone script's process: ready events, loop tasks, table

cfgVars == <<enabled, features, poll_interval, catalog, dbFaults>>
svcVars == <<clientReady>>
monVars == <<running, pc, fetched, pos, step>>
histVars == <<lastFetch, examined, dlog, prevDelivered, deliverCount>>
linkVars == <<links, links_per_batch, forwarder, collections, qret, forwarded, drainRun>>
supVars == <<max_restarts, restart_on_failure, monitors, restart_count, shutdown_event,
             starts, task, tasks, closes, main, stopper, exit_status, script>>
vars == <<cfgVars, svcVars, monVars, store, histVars, ret, linkVars, supVars>>

\* ------------------------------------------------------------ helpers
Last(s) == s[Len(s)]
SetLast(s, e) == [s EXCEPT ![Len(s)] = e]
SeqsUpTo(S, n) == UNION {[1..k -> S] : k \in 0..n}
Bump(c) == IF c < DeliverCap THEN c + 1 ELSE c

\* The record the origin returns for id i of feed f.
Rec(f, i) == [id |-> i, shape |-> catalog[f][i]]

HasId(r) == r.shape # "no_id"
HasName(r) == r.shape # "no_name"
HasFields(r) == r.shape \notin {"no_field"}

\* ------------------------------------------------ DatabaseManager (database.py)
RowIds(st) == {x.id : x \in st}

\* SELECT 1 FROM tracked_machines WHERE id = ?
machine_exists(st, id) == \E x \in st : x.id = id
\* SELECT 1 FROM tracked_challenges WHERE id = ?
challenge_exists(st, id) == \E x \in st : x.id = id
\* SELECT 1 FROM sent_notices WHERE id = ?
notice_exists(st, id) == \E x \in st : x.id = id

\* Faulty variant of insert_row: INSERT OR REPLACE instead of INSERT.
insert_row_replace(st, row, ioOk) ==
  IF ioOk
  THEN [ok |-> TRUE, store |-> {x \in st : x.id # row.id} \cup {row}]
  ELSE [ok |-> FALSE, store |-> st]

\* INSERT into a table whose id column is the PRIMARY KEY, inside the try/except of
\* add_*: a duplicate id (IntegrityError) or an I/O error (ioOk = FALSE) is caught
\* and reported as False; nothing is written then.
insert_row(st, row, ioOk) ==
  IF ioOk /\ row.id \notin RowIds(st)
  THEN [ok |-> TRUE, store |-> st \cup {row}]
  ELSE [ok |-> FALSE, store |-> st]

\* add_machine reads machine['id'], ['name'], ['os'], ['difficulty_text'], ['release']
\* inside the try: an absent key is a KeyError, caught, False.
add_machine(st, r, ioOk) ==
  IF HasId(r) /\ HasName(r) /\ HasFields(r)
  THEN insert_row(st, [id |-> r.id, data |-> r.shape], ioOk)
  ELSE [ok |-> FALSE, store |-> st]

\* add_challenge reads challenge['id'], ['name'], ['difficulty'], ['category_name'],
\* ['release_date'] inside the try; an empty value is stored as it is.
add_challenge(st, r, ioOk) ==
  IF HasId(r) /\ HasName(r) /\ HasFields(r)
  THEN insert_row(st, [id |-> r.id, data |-> r.shape], ioOk)
  ELSE [ok |-> FALSE, store |-> st]

\* add_notice(notice_id): the table has the id column only.
add_notice(st, id, ioOk) == insert_row(st, [id |-> id, data |-> "none"], ioOk)

\* Faulty variant of record_exists: the lookup never finds the row.
record_exists_never(f, st, id) == FALSE

record_exists(f, st, id) ==
  CASE f = "machines"   -> machine_exists(st, id)
    [] f = "challenges" -> challenge_exists(st, id)
    [] f = "notices"    -> notice_exists(st, id)

\* Faulty variant of add_record: success is reported and no row is written.
add_record_unwritten(f, st, r, ioOk) == [ok |-> ioOk, store |-> st]

add_record(f, st, r, ioOk) ==
  CASE f = "machines"   -> add_machine(st, r, ioOk)
    [] f = "challenges" -> add_challenge(st, r, ioOk)
    [] f = "notices"    -> add_notice(st, r.id, ioOk)

\* ---------------------------------------- DatabaseManager: the links table
\* The table is a rowid table with id INTEGER PRIMARY KEY AUTOINCREMENT and no
\* other index, and no method deletes a row: the rows are kept here in id order,
\* row i having id i.  A row is [id, channel_name, link, processed].
Reverse(s) == [i \in 1..Len(s) |-> s[Len(s) + 1 - i]]

LinkRow(id, channel_name, link) ==
  [id |-> id, channel_name |-> channel_name, link |-> link, processed |-> FALSE]

\* SELECT 1 FROM links WHERE link = ?
link_stored(tbl, link) == \E i \in 1..Len(tbl) : tbl[i].link = link

\* Faulty variant of save_link: the INSERT without the SELECT before it.
save_link_unchecked(tbl, channel_name, link, ioOk) ==
  IF ioOk
  THEN [ok |-> TRUE, links |-> Append(tbl, LinkRow(Len(tbl) + 1, channel_name, link))]
  ELSE [ok |-> FALSE, links |-> tbl]

\* save_link: SELECT, then INSERT and True if no row holds the link; False if one
\* does, and False on any exception (ioOk = FALSE), with nothing written.
save_link(tbl, channel_name, link, ioOk) ==
  IF ioOk /\ ~link_stored(tbl, link)
  THEN [ok |-> TRUE, links |-> Append(tbl, LinkRow(Len(tbl) + 1, channel_name, link))]
  ELSE [ok |-> FALSE, links |-> tbl]

\* Faulty variant of sql_limit: one row more than asked for.
sql_limit_one_more(rows, limit) ==
  IF limit < 0 THEN rows
  ELSE SubSeq(rows, 1, IF limit + 1 < Len(rows) THEN limit + 1 ELSE Len(rows))

\* LIMIT ? of SQLite: the first limit rows; a negative limit is no limit.
sql_limit(rows, limit) ==
  IF limit < 0 THEN rows
  ELSE SubSeq(rows, 1, IF limit < Len(rows) THEN limit ELSE Len(rows))

\* Faulty variant of unprocessed_rows: the table is scanned from its end.
unprocessed_rows_reversed(tbl) ==
  LET pending(x) == ~x.processed IN Reverse(SelectSeq(tbl, pending))

\* SELECT ... FROM links WHERE processed = 0, without ORDER BY: SQLite answers it
\* with a scan of the table b-tree (SCAN links), that is in id order.
unprocessed_rows(tbl) ==
  LET pending(x) == ~x.processed IN SelectSeq(tbl, pending)

\* Faulty variant of get_unprocessed_links: one row at most, whatever the limit.
get_unprocessed_links_single(tbl, limit, ioOk) ==
  IF ioOk
  THEN LET rows == sql_limit(unprocessed_rows(tbl), IF limit = 0 THEN 0 ELSE 1)
       IN [i \in 1..Len(rows) |-> <<rows[i].id, rows[i].channel_name, rows[i].link>>]
  ELSE <<>>

\* get_unprocessed_links: the (id, channel_name, link) tuples of the query, [] on
\* any exception.
get_unprocessed_links(tbl, limit, ioOk) ==
  IF ioOk
  THEN LET rows == sql_limit(unprocessed_rows(tbl), limit)
       IN [i \in 1..Len(rows) |-> <<rows[i].id, rows[i].channel_name, rows[i].link>>]
  ELSE <<>>

\* Faulty variant of mark_link_processed: the flag is flipped.
mark_link_processed_flip(tbl, link_id, ioOk) ==
  IF ioOk
  THEN [ok |-> TRUE,
        links |-> [i \in 1..Len(tbl) |->
                     IF tbl[i].id = link_id THEN [tbl[i] EXCEPT !.processed = ~@] ELSE tbl[i]]]
  ELSE [ok |-> FALSE, links |-> tbl]

\* mark_link_processed: UPDATE links SET processed = 1 WHERE id = ?; True also when
\* no row has the id, False on any exception.
mark_link_processed(tbl, link_id, ioOk) ==
  IF ioOk
  THEN [ok |-> TRUE,
        links |-> [i \in 1..Len(tbl) |->
                     IF tbl[i].id = link_id THEN [tbl[i] EXCEPT !.processed = TRUE] ELSE tbl[i]]]
  ELSE [ok |-> FALSE, links |-> tbl]

\* ------------------------------------------------------- the monitors
\* Faulty variant of fetch_result: the body is used whatever the status.
fetch_result_any_status(ok, list) == list

\* fetch_*: the list on a 200 response, [] on any other status or on an exception.
fetch_result(ok, list) == IF ok THEN list ELSE <<>>

\* Faulty variant of OriginIndex: the list is walked from its end.
OriginIndex_reversed(n, j) == n + 1 - j

\* for machine in machines: the j-th record visited is the one at this index of
\* the fetched list of length n.
OriginIndex(n, j) == j

\* process_new_challenge: every required field present and non-empty.
required_fields_ok(r) == r.shape = "valid"

\* process_new_*: the enabled steps run in this order.
StepOrder == <<"announce", "event", "thread">>
NextStep(on, k) ==
  LET later == {i \in (k + 1)..Len(StepOrder) : StepOrder[i] \in on}
  IN IF later = {} THEN 0 ELSE CHOOSE i \in later : \A m \in later : i <= m

\* How a delivery step can end for record r: "ok" (done), "failed" (logged, returned)
\* or "raised" (an exception leaves the step).  A machine record with an absent
\* metadata key makes the announcement and the event raise a KeyError as soon as they
\* get past their channel checks.
StepOutcomes(f, r, s) ==
  IF f = "machines" /\ ~HasFields(r) /\ s \in {"announce", "event"}
  THEN {"failed", "raised"}
  ELSE {"ok", "failed", "raised"}

\* The exception handler of the loop in start(): log, asyncio.sleep(60).
LoopRaised(w) == [w EXCEPT !.pc = "sleep_backoff", !.pos = 0, !.step = 0]
\* The for loop ended: asyncio.sleep(self.poll_interval).
LoopDone(w) == [w EXCEPT !.pc = "sleep_interval", !.pos = 0, !.step = 0]

Examine(w, idx, r, seen) ==
  [w EXCEPT !.examined = Append(@, [idx |-> idx, rec |-> r, inStore |-> seen])]

\* The for loop of check_new_machines / check_new_challenges / check_new_notices
\* from its j-th iteration on, up to the next await that suspends: the first await
\* of a delivery step, or the sleep after the loop.  w is the watcher's state, db
\* says whether the database calls of this stretch work.
RECURSIVE Scan(_, _, _, _)
Scan(f, j, w, db) ==
  IF j > Len(w.fetched) THEN LoopDone(w)
  ELSE
    LET idx == OriginIndex(Len(w.fetched), j)
        r == w.fetched[idx]
        seen == HasId(r) /\ r.id \in RowIds(w.store)
        w1 == Examine(w, idx, r, seen)
        first == NextStep(features[f], 0)
        entry == [idx |-> idx, id |-> r.id, attempted |-> {}, failed |-> FALSE,
                  end |-> "running", inserted |-> FALSE]
        counted == [w1 EXCEPT !.count[r.id] = Bump(@)]
        \* process_new_* returned without a suspension: add_*, next record
        added(wx) == LET a == add_record(f, wx.store, r, db.insertOk)
                     IN [wx EXCEPT !.store = a.store]
    IN
    IF ~HasId(r) THEN
      \* machine['id'] is a KeyError; notice.get("id") is None and the record is skipped
      IF f = "notices" THEN Scan(f, j + 1, w1, db) ELSE LoopRaised(w1)
    ELSE IF ~db.existsOk THEN LoopRaised(w)           \* sqlite error in *_exists
    ELSE IF record_exists(f, w.store, r.id) THEN Scan(f, j + 1, w1, db)
    ELSE IF f # "notices" /\ ~HasName(r) THEN LoopRaised(w1)   \* machine['name'] in the log line
    ELSE IF f = "challenges" /\ ~required_fields_ok(r) THEN
      \* process_new_challenge logs and returns; check_new_challenges goes on to add_challenge
      Scan(f, j + 1, added(w1), db)
    ELSE IF first = 0 THEN
      \* every step switched off: process_new_* returns at once
      LET a == add_record(f, w1.store, r, db.insertOk)
          done == [counted EXCEPT !.store = a.store,
                     !.dlog = Append(@, [entry EXCEPT !.end = "returned", !.inserted = a.ok])]
      IN Scan(f, j + 1, done, db)
    ELSE
      [counted EXCEPT !.pc = "delivering", !.pos = j, !.step = first,
         !.dlog = Append(@, [entry EXCEPT !.attempted = {StepOrder[first]}])]

\* Faulty variant of check_new_records: a failed fetch raises into the handler of the loop.
check_new_records_raising(f, ok, list, w, db) ==
  IF ok
  THEN Scan(f, 1, [w EXCEPT !.fetched = list, !.examined = <<>>, !.dlog = <<>>], db)
  ELSE LoopRaised([w EXCEPT !.fetched = <<>>, !.examined = <<>>, !.dlog = <<>>])

\* check_new_*: the fetch (a failed one hands back []), then the for loop.
check_new_records(f, ok, list, w, db) ==
  Scan(f, 1, [w EXCEPT !.fetched = fetch_result(ok, list), !.examined = <<>>, !.dlog = <<>>], db)

\* Faulty variant of db_name: every feed uses the machines database.
db_name_shared(f) == "machines"

\* The database a feed's *_exists and add_* methods connect to: one file per feed.
db_name(f) == f

\* The watcher of feed f as one record, and its write-back.
Watcher(f) ==
  [pc |-> pc[f], pos |-> pos[f], step |-> step[f], fetched |-> fetched[f],
   store |-> store[db_name(f)], examined |-> examined[f], dlog |-> dlog[f],
   count |-> deliverCount[f]]

SetWatcher(f, w) ==
  /\ pc' = [pc EXCEPT ![f] = w.pc]
  /\ pos' = [pos EXCEPT ![f] = w.pos]
  /\ step' = [step EXCEPT ![f] = w.step]
  /\ fetched' = [fetched EXCEPT ![f] = w.fetched]
  /\ store' = [store EXCEPT ![db_name(f)] = w.store]
  /\ examined' = [examined EXCEPT ![f] = w.examined]
  /\ dlog' = [dlog EXCEPT ![f] = w.dlog]
  /\ deliverCount' = [deliverCount EXCEPT ![f] = w.count]

\* What the origin can return for feed f.
OriginLists(f) == SeqsUpTo({Rec(f, i) : i \in Ids}, MaxLen)

\* What the body of a failed response can hold.
ErrorBodies(f) == {<<>>, <<Rec(f, 1)>>}

\* Whether the *_exists calls and the add_* calls of one stretch work.
DbOutcomes ==
  IF dbFaults THEN [existsOk : BOOLEAN, insertOk : BOOLEAN]
  ELSE {[existsOk |-> TRUE, insertOk |-> TRUE]}

\* start(), first lines: self.running = True, then await client.wait_until_ready().
MonitorStart(f) ==
  /\ pc[f] = "created"
  /\ pc' = [pc EXCEPT ![f] = "wait_ready"]
  /\ running' = [running EXCEPT ![f] = TRUE]
  /\ UNCHANGED <<cfgVars, svcVars, fetched, pos, step, store, histVars, ret, linkVars, supVars>>

\* One pass of the while loop of start(), from the wake-up (readiness, or the end of
\* a sleep) through check_new_*: the fetch, then the for loop up to its first
\* suspension.
Poll(f) ==
  /\ running[f]
  /\ \/ pc[f] = "wait_ready" /\ clientReady
     \/ pc[f] \in {"sleep_interval", "sleep_backoff"}
  /\ \E ok \in BOOLEAN, db \in DbOutcomes :
     \E list \in IF ok THEN OriginLists(f) ELSE ErrorBodies(f) :
       /\ SetWatcher(f, check_new_records(f, ok, list, Watcher(f), db))
       /\ lastFetch' = [lastFetch EXCEPT ![f] = IF ok THEN "ok" ELSE "failed"]
  /\ prevDelivered' = [prevDelivered EXCEPT ![f] = {dlog[f][i].id : i \in DOMAIN dlog[f]}]
  /\ UNCHANGED <<cfgVars, svcVars, running, ret, linkVars, supVars>>

\* The delivery step the task is suspended in ends.  An exception leaves
\* process_new_* and check_new_* and reaches the handler of the loop; otherwise the
\* next enabled step starts, or process_new_* returns, add_* runs and the for loop
\* goes on.
DeliveryStep(f) ==
  /\ pc[f] = "delivering"
  /\ LET w == Watcher(f)
         r == fetched[f][OriginIndex(Len(fetched[f]), pos[f])]
         s == StepOrder[step[f]]
         cur == Last(dlog[f])
         nxt == NextStep(features[f], step[f])
     IN \E out \in StepOutcomes(f, r, s), db \in DbOutcomes :
          LET after == [cur EXCEPT !.failed = @ \/ out = "failed"]
          IN IF out = "raised" THEN
               SetWatcher(f, LoopRaised([w EXCEPT !.dlog = SetLast(@, [after EXCEPT !.end = "raised"])]))
             ELSE IF nxt # 0 THEN
               SetWatcher(f, [w EXCEPT !.step = nxt,
                                !.dlog = SetLast(@, [after EXCEPT !.attempted = @ \cup {StepOrder[nxt]}])])
             ELSE
               LET a == add_record(f, w.store, r, db.insertOk)
                   w2 == [w EXCEPT !.store = a.store,
                            !.dlog = SetLast(@, [after EXCEPT !.end = "returned", !.inserted = a.ok])]
               IN SetWatcher(f, Scan(f, pos[f] + 1, w2, db))
  /\ UNCHANGED <<cfgVars, svcVars, running, lastFetch, prevDelivered, ret, linkVars, supVars>>

\* ------------------------------------------------------- the service
\* The client becomes ready: wait_until_ready() returns in every monitor.
ClientReady ==
  /\ ~clientReady
  /\ \E f \in enabled : pc[f] # "cancelled"
  /\ clientReady' = TRUE
  /\ UNCHANGED <<cfgVars, monVars, store, histVars, ret, linkVars, supVars>>

\* Faulty variant of loop_on_cancel: the handler of the loop catches the
\* cancellation raised inside its try block and sleeps the backoff.
loop_on_cancel_absorbed(at) ==
  IF at \in {"delivering", "sleep_interval"} THEN "sleep_backoff" ELSE "cancelled"

\* The loop of start() when CancelledError is raised at the await the task is
\* suspended in: `except Exception` does not catch it (it is a BaseException), and
\* the task ends cancelled wherever it was.
loop_on_cancel(at) == "cancelled"

\* stop(), or the end of _run_discord_clients: task.cancel().  The CancelledError is
\* raised at the await the task is suspended in; it is no Exception, so the handler
\* of the loop lets it pass and the task ends.
CancelWatcher(f) ==
  /\ pc[f] \in {"created", "wait_ready", "delivering", "sleep_interval", "sleep_backoff"}
  /\ pc' = [pc EXCEPT ![f] = loop_on_cancel(pc[f])]
  /\ dlog' = [dlog EXCEPT ![f] =
                IF pc[f] = "delivering" THEN SetLast(@, [Last(@) EXCEPT !.end = "cancelled"]) ELSE @]
  /\ UNCHANGED <<cfgVars, svcVars, running, fetched, pos, step, store,
                 lastFetch, examined, prevDelivered, deliverCount, ret, linkVars, supVars>>

\* start() again after stop() has cancelled and awaited every task (restart(), or a
\* new process): new client, new monitor objects, new tasks.  The tables are files
\* and stay.
StartService ==
  /\ \A f \in enabled : pc[f] = "cancelled"
  /\ clientReady' = FALSE
  /\ running' = [f \in Feeds |-> FALSE]
  /\ pc' = [f \in Feeds |-> IF f \in enabled THEN "created" ELSE "off"]
  /\ fetched' = [f \in Feeds |-> <<>>]
  /\ pos' = [f \in Feeds |-> 0]
  /\ step' = [f \in Feeds |-> 0]
  /\ lastFetch' = [f \in Feeds |-> "none"]
  /\ examined' = [f \in Feeds |-> <<>>]
  /\ dlog' = [f \in Feeds |-> <<>>]
  /\ prevDelivered' = [f \in Feeds |-> {}]
  /\ UNCHANGED <<cfgVars, store, deliverCount, ret, linkVars, supVars>>

\* ------------------------------------------------------- specification
\* Every feature flag defaults to True; the notice monitor has the one step.
DefaultFeatures(f) == IF f = "notices" THEN {"announce"} ELSE AllSteps

\* The flag combinations explored for machines and challenges.
FeatureChoices(f) ==
  IF f = "notices" THEN {{"announce"}} ELSE {AllSteps, {"event", "thread"}}

NoRet == [op |-> "none", feed |-> "none", present |-> FALSE, ok |-> FALSE, raised |-> FALSE]

\* No collection has been resolved yet.
NoResolution ==
  [key |-> "none", before |-> 0, cached |-> FALSE, lookup |-> "none", create |-> "none",
   collection |-> 0, forward |-> "none"]

\* A LinkwardenForwarder slot: no object created yet.
NoForwarder ==
  [pc |-> "none", running |-> FALSE, listening |-> FALSE, cache |-> [c \in Channels |-> 0],
   batch |-> <<>>, pos |-> 0, log |-> <<>>, last |-> NoResolution]

NoLinkRet == [op |-> "none"]

\* No run of uninterrupted drain cycles is being counted.
NoRun == [k |-> -1, n |-> 0]

\* features.linkwarden.enabled is false in the generated configuration: no
\* forwarder is created, the links table stays empty.
LinkwardenOff ==
  /\ links = <<>>
  /\ links_per_batch = DefaultLinksPerBatch
  /\ forwarder = [s \in 1..MaxForwarders |-> NoForwarder]
  /\ collections = <<>>
  /\ qret = NoLinkRet
  /\ forwarded = {}
  /\ drainRun = NoRun

\* The largest number of starts a service with max_restarts <= MaxRestarts can make.
MaxStarts == MaxRestarts + 1
Runs == 1..MaxStarts

\* The tasks one start creates: client.start(), the task of shutdown_event.wait()
\* and one task per monitor.
MonitorNames == {"machines", "linkwarden"}
TaskNames == {"client", "shutdown_event"} \cup MonitorNames
Invokers == 0..MaxSignals

NoStop == [pc |-> "none", idx |-> 0]

\* No standalone script runs: no ready event yet, no loop task, an empty table.
NoScript == [ready |-> 0, loops |-> <<>>, table |-> {}, sent |-> [i \in 1..MaxId |-> 0]]
NoMain == [pc |-> "boot", frames |-> <<>>, after |-> "none", woke |-> "none", exhausted |-> FALSE,
           event_set |-> FALSE]

\* HTBDiscordService.__init__, before start() has run.
NewService ==
  /\ restart_count = 0
  /\ shutdown_event = FALSE
  /\ starts = 0
  /\ task = [r \in Runs |-> [n \in TaskNames |-> "none"]]
  /\ tasks = <<>>
  /\ closes = [r \in Runs |-> 0]
  /\ main = NoMain
  /\ stopper = [i \in Invokers |-> NoStop]
  /\ exit_status = -1
  /\ script = NoScript

\* The supervisor is not looked at: defaults of __init__ and of the configuration.
SupervisorOff ==
  /\ max_restarts = DefaultMaxRestarts
  /\ restart_on_failure = TRUE
  /\ monitors = <<>>
  /\ NewService

InitFeedMonitors ==
  /\ clientReady = FALSE
  /\ running = [f \in Feeds |-> FALSE]
  /\ pc = [f \in Feeds |-> IF f \in enabled THEN "created" ELSE "off"]
  /\ fetched = [f \in Feeds |-> <<>>]
  /\ pos = [f \in Feeds |-> 0]
  /\ step = [f \in Feeds |-> 0]
  /\ store = [f \in Feeds |-> {}]
  /\ lastFetch = [f \in Feeds |-> "none"]
  /\ examined = [f \in Feeds |-> <<>>]
  /\ dlog = [f \in Feeds |-> <<>>]
  /\ prevDelivered = [f \in Feeds |-> {}]
  /\ deliverCount = [f \in Feeds |-> [i \in Ids |-> 0]]
  /\ ret = NoRet

InitMonitors == LinkwardenOff /\ SupervisorOff /\ InitFeedMonitors

\* One feed enabled, with any flags and origin records.
InitFeed ==
  /\ \E f \in Feeds :
       /\ enabled = {f}
       /\ \E fl \in FeatureChoices(f) :
            features = [g \in Feeds |-> IF g = f THEN fl ELSE DefaultFeatures(g)]
       /\ poll_interval = [g \in Feeds |-> ConfiguredPollInterval(g)]
       /\ \E c \in [Ids -> ShapesOf(f)] :
            catalog = [g \in Feeds |-> IF g = f THEN c ELSE [i \in Ids |-> "valid"]]
  /\ InitMonitors

\* The database can fail at any call.
Init == InitFeed /\ dbFaults = TRUE

\* The database never fails.
InitReliableDb == InitFeed /\ dbFaults = FALSE

Next ==
  \/ \E f \in enabled : MonitorStart(f)
  \/ \E f \in enabled : Poll(f)
  \/ \E f \in enabled : DeliveryStep(f)
  \/ ClientReady
  \/ \E f \in enabled : CancelWatcher(f)
  \/ StartService

Spec == Init /\ [][Next]_vars

SpecReliableDb == InitReliableDb /\ [][Next]_vars

\* A poll whose origin knows the one record, id 1: it answers [], [1] or [1, 1].
PollOneRecord(f) ==
  /\ Poll(f)
  /\ \A i \in 1..Len(fetched'[f]) : fetched'[f][i].id = 1

\* Two feeds watched by one service, machines with the event and thread steps and
\* notices, over origins whose records are all well formed; the database can fail
\* at any call.  No signal arrives and no task is cancelled.
InitTwoFeeds ==
  /\ enabled = {"machines", "notices"}
  /\ features = [g \in Feeds |-> IF g = "machines" THEN {"event", "thread"} ELSE DefaultFeatures(g)]
  /\ poll_interval = [g \in Feeds |-> ConfiguredPollInterval(g)]
  /\ catalog = [g \in Feeds |-> [i \in Ids |-> "valid"]]
  /\ dbFaults = TRUE
  /\ InitMonitors

NextTwoFeeds ==
  \/ \E f \in enabled : MonitorStart(f)
  \/ \E f \in enabled : PollOneRecord(f)
  \/ \E f \in enabled : DeliveryStep(f)
  \/ ClientReady

SpecTwoFeeds == InitTwoFeeds /\ [][NextTwoFeeds]_vars

\* A poll whose origin keeps the record with id MaxId in its list: a successful
\* fetch answers [MaxId], [1, MaxId], [MaxId, 1] or [MaxId, MaxId]; a fetch can
\* still fail.
PollWithRecord(f) ==
  /\ Poll(f)
  /\ lastFetch'[f] = "ok" => \E i \in 1..Len(fetched'[f]) : fetched'[f][i].id = MaxId

\* A delivery step ends, in an environment where every step for the record with
\* id 1 raises (say its announcement is rejected by Discord every time) and no
\* step for another record raises.
DeliveryHeadRaises(f) ==
  /\ DeliveryStep(f)
  /\ LET cur == Len(dlog[f])
     IN (dlog'[f][cur].end = "raised") <=> (dlog[f][cur].id = 1)

\* One feed enabled, with any flags, over an origin whose records are all well
\* formed and a database that never fails; the store is empty, so the record
\* with id MaxId is valid and unseen.
InitHeadOfLine ==
  /\ \E f \in Feeds :
       /\ enabled = {f}
       /\ \E fl \in FeatureChoices(f) :
            features = [g \in Feeds |-> IF g = f THEN fl ELSE DefaultFeatures(g)]
  /\ poll_interval = [g \in Feeds |-> ConfiguredPollInterval(g)]
  /\ catalog = [g \in Feeds |-> [i \in Ids |-> "valid"]]
  /\ dbFaults = FALSE
  /\ InitMonitors

NextHeadOfLine ==
  \/ \E f \in enabled : MonitorStart(f)
  \/ \E f \in enabled : PollWithRecord(f)
  \/ \E f \in enabled : DeliveryHeadRaises(f)
  \/ ClientReady

\* Fair scheduling: the event loop runs every task that is ready (the monitor's
\* first step, the wake-up after a sleep, the end of a delivery step), the client
\* becomes ready, and fetches succeed again and again.
FairHeadOfLine ==
  /\ WF_vars(ClientReady)
  /\ \A f \in Feeds :
       /\ WF_vars(MonitorStart(f))
       /\ WF_vars(PollWithRecord(f))
       /\ WF_vars(DeliveryHeadRaises(f))
       /\ SF_vars(PollWithRecord(f) /\ lastFetch'[f] = "ok")

SpecHeadOfLine == InitHeadOfLine /\ [][NextHeadOfLine]_vars /\ FairHeadOfLine

\* ------------------------------------ the standalone scripts (htb_machines.py)
\* script.loops holds the loop tasks of the script: where each is, the list it
\* fetched, the position of its for loop.
\* The for loop of check_new_machines from its j-th iteration on, up to the next
\* await that suspends: send_machine_to_channel for the first id that
\* machine_exists does not find, or the asyncio.sleep(600) after the loop.
RECURSIVE script_scan(_, _, _)
script_scan(l, j, table) ==
  IF j > Len(l.list) THEN [l EXCEPT !.pc = "sleeping", !.pos = 0]
  ELSE IF l.list[j] \in table THEN script_scan(l, j + 1, table)
  ELSE [l EXCEPT !.pc = "sending", !.pos = j]

ScriptUnchanged ==
  UNCHANGED <<cfgVars, svcVars, monVars, store, histVars, ret, linkVars,
              max_restarts, restart_on_failure, monitors, restart_count, shutdown_event,
              starts, task, tasks, closes, main, stopper, exit_status>>

\* on_ready: the gateway sent READY (the first connection, or a reconnection
\* that could not resume its session): client.loop.create_task(check_new_machines()).
OnReady ==
  /\ script.ready < MaxReady
  /\ script' = [script EXCEPT !.ready = @ + 1, !.loops = Append(@, [pc |-> "created", list |-> <<>>, pos |-> 0])]
  /\ ScriptUnchanged

\* A loop task runs: from its creation (wait_until_ready returns at once, the
\* client is ready) or from the end of its sleep; fetch_machines, then the for
\* loop up to its first suspension.
ScriptPoll(k) ==
  /\ script.loops[k].pc \in {"created", "sleeping"}
  /\ \E ok \in BOOLEAN, list \in SeqsUpTo(Ids, MaxLen) :
       script' = [script EXCEPT !.loops[k] =
                    script_scan([@ EXCEPT !.list = fetch_result(ok, list)], 1, script.table)]
  /\ ScriptUnchanged

\* send_machine_to_channel ends in a loop task.  If it raised, or if add_machine
\* raises (a plain INSERT: sqlite3.IntegrityError when the id is in the table by
\* now), the exception leaves check_new_machines, which has no try block: the
\* task ends.  Otherwise the row is inserted and the for loop goes on.
ScriptSendDone(k) ==
  /\ script.loops[k].pc = "sending"
  /\ LET l == script.loops[k]
         id == l.list[l.pos]
     IN \E sendOk \in BOOLEAN :
          IF ~sendOk
          THEN script' = [script EXCEPT !.loops[k].pc = "failed"]
          ELSE IF id \in script.table
          THEN script' = [script EXCEPT !.loops[k].pc = "failed", !.sent[id] = Bump(@)]
          ELSE script' = [script EXCEPT !.table = @ \cup {id}, !.sent[id] = Bump(@),
                                        !.loops[k] = script_scan(l, l.pos + 1, script.table \cup {id})]
  /\ ScriptUnchanged

\* The script's process: initialize_db() on an empty file, then client.run.
InitStandalone ==
  /\ enabled = {}
  /\ features = [g \in Feeds |-> DefaultFeatures(g)]
  /\ poll_interval = [g \in Feeds |-> ConfiguredPollInterval(g)]
  /\ catalog = [g \in Feeds |-> [i \in Ids |-> "valid"]]
  /\ dbFaults = FALSE
  /\ InitMonitors

NextStandalone ==
  \/ OnReady
  \/ \E k \in 1..Len(script.loops) : ScriptPoll(k)
  \/ \E k \in 1..Len(script.loops) : ScriptSendDone(k)

SpecStandalone == InitStandalone /\ [][NextStandalone]_vars

\* asyncio.sleep(self.poll_interval) at the end of a pass, asyncio.sleep(60) in the handler.
SleepSeconds(f) == IF pc[f] = "sleep_backoff" THEN BackoffSeconds ELSE poll_interval[f]

\* ------------------------------------------- direct use of DatabaseManager
Records == [id : Ids, shape : Shapes]

\* db_manager.add_machine / add_challenge / add_notice called with any record.
ApiAdd(f, r, ioOk) ==
  LET a == add_record(f, store[f], r, ioOk)
  IN /\ store' = [store EXCEPT ![f] = a.store]
     /\ ret' = [op |-> "add", feed |-> f,
                present |-> HasId(r) /\ r.id \in RowIds(store[f]),
                ok |-> a.ok, raised |-> FALSE]
     /\ UNCHANGED <<cfgVars, svcVars, monVars, histVars, linkVars, supVars>>

\* db_manager.machine_exists / challenge_exists / notice_exists called with any id;
\* these have no try/except, an sqlite error is raised to the caller.
ApiExists(f, id, ioOk) ==
  /\ ret' = [op |-> "exists", feed |-> f, present |-> id \in RowIds(store[f]),
             ok |-> ioOk /\ record_exists(f, store[f], id), raised |-> ~ioOk]
  /\ UNCHANGED <<cfgVars, svcVars, monVars, store, histVars, linkVars, supVars>>

InitStore ==
  /\ enabled = {}
  /\ features = [g \in Feeds |-> DefaultFeatures(g)]
  /\ poll_interval = [g \in Feeds |-> ConfiguredPollInterval(g)]
  /\ catalog = [g \in Feeds |-> [i \in Ids |-> "valid"]]
  /\ dbFaults = TRUE
  /\ InitMonitors

NextStore ==
  \/ \E f \in Feeds, r \in Records, ioOk \in BOOLEAN : ApiAdd(f, r, ioOk)
  \/ \E f \in Feeds, id \in Ids, ioOk \in BOOLEAN : ApiExists(f, id, ioOk)

SpecStore == InitStore /\ [][NextStore]_vars

\* --------------------------------- direct use of the links methods
TupleIds(batch) == {batch[i][1] : i \in 1..Len(batch)}

\* db_manager.save_link called with any channel name and link.
ApiSaveLink(channel_name, link, ioOk) ==
  LET a == save_link(links, channel_name, link, ioOk)
  IN /\ Len(a.links) <= MaxLinks
     /\ links' = a.links
     /\ qret' = [op |-> "save", link |-> link, present |-> link_stored(links, link), ok |-> a.ok]
     /\ UNCHANGED <<cfgVars, svcVars, monVars, store, histVars, ret, supVars>>
     /\ UNCHANGED <<links_per_batch, forwarder, collections, forwarded, drainRun>>

\* Faulty variant of ApiGetUnprocessed: the rows handed out are marked processed.
ApiGetUnprocessed_marking(limit, ioOk) ==
  LET b == get_unprocessed_links(links, limit, ioOk)
  IN /\ qret' = [op |-> "get", limit |-> limit, worked |-> ioOk, result |-> b]
     /\ links' = [i \in 1..Len(links) |->
                    IF links[i].id \in TupleIds(b) THEN [links[i] EXCEPT !.processed = TRUE]
                    ELSE links[i]]
     /\ UNCHANGED <<cfgVars, svcVars, monVars, store, histVars, ret, supVars>>
     /\ UNCHANGED <<links_per_batch, forwarder, collections, forwarded, drainRun>>

\* db_manager.get_unprocessed_links called with any limit: a SELECT and nothing else.
ApiGetUnprocessed(limit, ioOk) ==
  LET b == get_unprocessed_links(links, limit, ioOk)
  IN /\ qret' = [op |-> "get", limit |-> limit, worked |-> ioOk, result |-> b]
     /\ UNCHANGED <<cfgVars, svcVars, monVars, store, histVars, ret, supVars>>
     /\ UNCHANGED <<links, links_per_batch, forwarder, collections, forwarded, drainRun>>

\* db_manager.mark_link_processed called with any id, stored or not.
ApiMarkProcessed(link_id, ioOk) ==
  LET a == mark_link_processed(links, link_id, ioOk)
  IN /\ links' = a.links
     /\ qret' = [op |-> "mark", id |-> link_id, ok |-> a.ok,
                was |-> \E i \in 1..Len(links) : links[i].id = link_id /\ links[i].processed]
     /\ UNCHANGED <<cfgVars, svcVars, monVars, store, histVars, ret, supVars>>
     /\ UNCHANGED <<links_per_batch, forwarder, collections, forwarded, drainRun>>

InitQueue == InitStore

NextQueue ==
  \/ \E l \in LinkPayloads, ioOk \in BOOLEAN : \E c \in PostedIn(l) : ApiSaveLink(c, l, ioOk)
  \/ \E n \in Limits, ioOk \in BOOLEAN : ApiGetUnprocessed(n, ioOk)
  \/ \E i \in 1..MaxLinks, ioOk \in BOOLEAN : ApiMarkProcessed(i, ioOk)

SpecQueue == InitQueue /\ [][NextQueue]_vars

\* ------------------------------------------- LinkwardenForwarder (linkwarden.py)
\* make_linkwarden_request is http.client, a blocking call, and the links methods
\* are sqlite3: nothing between get_unprocessed_links and the end of the for loop of
\* process_pending_links suspends the task.  The loop task gives up control only in
\* asyncio.sleep.

\* fetch_collections: name -> collection of GET /api/v1/collections (for a name held
\* twice the later element wins in the dict comprehension); {} when the request
\* fails, the body is not the expected one, or an exception is raised.  0 stands
\* for "name not in the dict".
fetch_collections(ok, colls) ==
  [c \in Channels |->
     LET ids == {i \in 1..Len(colls) : colls[i] = c}
     IN IF ok /\ ids # {} THEN CHOOSE i \in ids : \A j \in ids : j <= i ELSE 0]

\* create_collection: POST /api/v1/collections; the new collection, or None (0).
create_collection(colls, collection_name, ok) ==
  IF ok
  THEN [collection |-> Len(colls) + 1, collections |-> Append(colls, collection_name)]
  ELSE [collection |-> 0, collections |-> colls]

\* Faulty variant of get_or_create_collection: the cache is not consulted.
get_or_create_collection_uncached(cache, colls, collection_name, lookupOk, createOk) ==
  LET found == fetch_collections(lookupOk, colls)
      lookup == IF lookupOk THEN "ok" ELSE "failed"
  IN IF found[collection_name] # 0
     THEN [collection |-> found[collection_name], collections |-> colls,
           cache |-> [cache EXCEPT ![collection_name] = found[collection_name]],
           cached |-> FALSE, lookup |-> lookup, create |-> "none"]
     ELSE LET c == create_collection(colls, collection_name, createOk)
          IN [collection |-> c.collection, collections |-> c.collections,
              cache |-> IF c.collection # 0
                        THEN [cache EXCEPT ![collection_name] = c.collection] ELSE cache,
              cached |-> FALSE, lookup |-> lookup,
              create |-> IF createOk THEN "ok" ELSE "failed"]

\* get_or_create_collection: the cache, else the fetched dict, else a create.  The
\* result says which requests were issued.
get_or_create_collection(cache, colls, collection_name, lookupOk, createOk) ==
  IF cache[collection_name] # 0
  THEN [collection |-> cache[collection_name], collections |-> colls, cache |-> cache,
        cached |-> TRUE, lookup |-> "none", create |-> "none"]
  ELSE LET found == fetch_collections(lookupOk, colls)
           lookup == IF lookupOk THEN "ok" ELSE "failed"
       IN IF found[collection_name] # 0
          THEN [collection |-> found[collection_name], collections |-> colls,
                cache |-> [cache EXCEPT ![collection_name] = found[collection_name]],
                cached |-> FALSE, lookup |-> lookup, create |-> "none"]
          ELSE LET c == create_collection(colls, collection_name, createOk)
               IN [collection |-> c.collection, collections |-> c.collections,
                   cache |-> IF c.collection # 0
                             THEN [cache EXCEPT ![collection_name] = c.collection] ELSE cache,
                   cached |-> FALSE, lookup |-> lookup,
                   create |-> IF createOk THEN "ok" ELSE "failed"]

\* What POST /api/v1/links can come to: "ok" a 200/201 body with a "response" field;
\* "error" another status, an exception inside make_linkwarden_request, or a body
\* without the field; "raised" an exception in send_link_to_linkwarden itself (the
\* membership test on a body that is a number), caught by its except.
ForwardOutcomes == {"ok", "error", "raised"}

\* Faulty variant of send_link_to_linkwarden: any answered request counts.
send_link_to_linkwarden_any_answer(cache, colls, channel_name, lookupOk, createOk, post) ==
  LET r == get_or_create_collection(cache, colls, channel_name, lookupOk, createOk)
  IN IF r.collection = 0
     THEN [success |-> FALSE, forward |-> "none", res |-> r]
     ELSE [success |-> post # "raised", forward |-> post, res |-> r]

\* send_link_to_linkwarden: False when no collection could be had, else the POST;
\* True only for "ok".
send_link_to_linkwarden(cache, colls, channel_name, lookupOk, createOk, post) ==
  LET r == get_or_create_collection(cache, colls, channel_name, lookupOk, createOk)
  IN IF r.collection = 0
     THEN [success |-> FALSE, forward |-> "none", res |-> r]
     ELSE [success |-> post = "ok", forward |-> post, res |-> r]

Slots == 1..MaxForwarders

\* A forwarder whose tasks have ended; the batch it was handed last is kept as
\* history.
Gone(me) == [NoForwarder EXCEPT !.pc = "dead", !.batch = me.batch, !.pos = me.pos]
FeedsUnchanged == UNCHANGED <<cfgVars, svcVars, monVars, store, histVars, ret, supVars>>

\* A loop task is inside process_pending_links: no other task of the process runs.
Busy == \E s \in Slots : forwarder[s].pc = "draining"

Pending(tbl) == Len(unprocessed_rows(tbl))
IoOutcomes == IF dbFaults THEN BOOLEAN ELSE {TRUE}
\* One more cycle of the run; the count stops once the run has taken every item.
NextCycle(run) ==
  IF run.k = -1 THEN NoRun
  ELSE [run EXCEPT !.n = IF @ * links_per_batch < run.k THEN @ + 1 ELSE @]

\* The service creates a LinkwardenForwarder (empty cache) and the task of its
\* start(): self.running = True, then await client.wait_until_ready().  For s > 1
\* this is start() in a new process, or start() after a stop() that has cancelled
\* the start() task of the earlier forwarder; one forwarder drains at a time.
ForwarderStart(s) ==
  /\ forwarder[s].pc = "none"
  /\ IF s = 1 THEN TRUE ELSE forwarder[s - 1].pc \in {"wait_ready", "ingesting", "dead"}
  /\ ~Busy
  /\ forwarder' = [t \in Slots |->
       IF t = s THEN [NoForwarder EXCEPT !.pc = "wait_ready", !.running = TRUE]
       ELSE IF forwarder[t].pc \in {"wait_ready", "ingesting"}
            THEN Gone(forwarder[t])
            ELSE forwarder[t]]
  /\ FeedsUnchanged
  /\ UNCHANGED <<links, links_per_batch, collections, qret, forwarded, drainRun>>

\* wait_until_ready() returns: process_existing_messages starts.
ForwarderReady(s) ==
  /\ forwarder[s].pc = "wait_ready"
  /\ ~Busy
  /\ forwarder' = [forwarder EXCEPT ![s].pc = "ingesting"]
  /\ FeedsUnchanged
  /\ UNCHANGED <<links, links_per_batch, collections, qret, forwarded, drainRun>>

\* The links a message can hold: one posted before, or the next new one.
Postable(tbl) ==
  {tbl[i].link : i \in 1..Len(tbl)} \cup
  (IF Len(tbl) < Len(FirstPosted) THEN {FirstPosted[Len(tbl) + 1]} ELSE {})

\* extract_links_from_message, for one link found in a message of a channel:
\* db_manager.save_link(message.channel.name, link).
extract_links_from_message(channel_name, link, ioOk) ==
  LET a == save_link(links, channel_name, link, ioOk)
  IN /\ Len(a.links) <= MaxLinks
     /\ links' = a.links
     /\ drainRun' = IF a.ok THEN NoRun ELSE drainRun

\* process_channel_history: one message of the history of a monitored channel.
Ingest(s) ==
  /\ forwarder[s].pc = "ingesting"
  /\ ~Busy
  /\ \E l \in Postable(links), ioOk \in IoOutcomes : \E c \in PostedIn(l) :
       extract_links_from_message(c, l, ioOk)
  /\ FeedsUnchanged
  /\ UNCHANGED <<links_per_batch, forwarder, collections, qret, forwarded>>

\* process_existing_messages is over: add_listener, then
\* asyncio.create_task(self.process_links_loop()); the loop task has not run yet.
IngestDone(s) ==
  /\ forwarder[s].pc = "ingesting"
  /\ ~Busy
  /\ forwarder' = [forwarder EXCEPT ![s].pc = "loop_created", ![s].listening = TRUE]
  /\ FeedsUnchanged
  /\ UNCHANGED <<links, links_per_batch, collections, qret, forwarded, drainRun>>

\* on_message for a message of another author in a monitored category.
OnMessage(s) ==
  /\ forwarder[s].listening
  /\ ~Busy
  /\ \E l \in Postable(links), ioOk \in IoOutcomes : \E c \in PostedIn(l) :
       extract_links_from_message(c, l, ioOk)
  /\ FeedsUnchanged
  /\ UNCHANGED <<links_per_batch, forwarder, collections, qret, forwarded>>

\* Faulty variant of process_links_loop: the next cycle follows with no sleep.
process_links_loop_no_sleep(n, nxt) == IF nxt = 0 THEN "loop_created" ELSE "draining"

\* process_links_loop, where the loop task is once item nxt of a batch of n is
\* next: inside process_pending_links while an item is left; when none is (nxt = 0,
\* also for an empty batch) process_pending_links has returned and the task is in
\* asyncio.sleep(self.batch_interval).  Nothing raised inside the cycle reaches the
\* handler of the loop: the database methods, make_linkwarden_request,
\* fetch_collections, create_collection and send_link_to_linkwarden each catch
\* Exception themselves.
process_links_loop(n, nxt) == IF nxt = 0 THEN "sleeping" ELSE "draining"

\* Faulty variant of DrainBegin: the rows handed out are marked processed at once.
DrainBegin_marking(s, ioOk) ==
  /\ forwarder[s].pc \in {"loop_created", "sleeping"}
  /\ forwarder[s].running
  /\ ~Busy
  /\ LET b == get_unprocessed_links(links, links_per_batch, ioOk)
         run == IF drainRun.k = -1 THEN [k |-> Pending(links), n |-> 0] ELSE drainRun
     IN /\ forwarder' = [forwarder EXCEPT ![s] =
             [@ EXCEPT !.batch = b, !.pos = IF b = <<>> THEN 0 ELSE 1,
                       !.pc = process_links_loop(Len(b), IF b = <<>> THEN 0 ELSE 1),
                       !.log = <<>>, !.last = NoResolution]]
        /\ drainRun' = IF ~ioOk THEN NoRun ELSE IF b = <<>> THEN NextCycle(run) ELSE run
        /\ links' = [i \in 1..Len(links) |->
                       IF links[i].id \in TupleIds(b) THEN [links[i] EXCEPT !.processed = TRUE]
                       ELSE links[i]]
  /\ FeedsUnchanged
  /\ UNCHANGED <<links_per_batch, collections, qret, forwarded>>

\* The loop task runs (its first pass from "loop_created", or the end of
\* asyncio.sleep(batch_interval) from "sleeping") and process_pending_links reads
\* its batch; an empty batch ends the cycle at once, and the task is back in
\* asyncio.sleep(batch_interval).
DrainBegin(s, ioOk) ==
  /\ forwarder[s].pc \in {"loop_created", "sleeping"}
  /\ forwarder[s].running
  /\ ~Busy
  /\ LET b == get_unprocessed_links(links, links_per_batch, ioOk)
         run == IF drainRun.k = -1 THEN [k |-> Pending(links), n |-> 0] ELSE drainRun
     IN /\ forwarder' = [forwarder EXCEPT ![s] =
             [@ EXCEPT !.batch = b, !.pos = IF b = <<>> THEN 0 ELSE 1,
                       !.pc = process_links_loop(Len(b), IF b = <<>> THEN 0 ELSE 1),
                       !.log = <<>>, !.last = NoResolution]]
        /\ drainRun' = IF ~ioOk THEN NoRun ELSE IF b = <<>> THEN NextCycle(run) ELSE run
  /\ FeedsUnchanged
  /\ UNCHANGED <<links, links_per_batch, collections, qret, forwarded>>

\* Faulty variant of next_item: a failed item ends the batch.
next_item_stop_on_failure(n, k, success) == IF success /\ k < n THEN k + 1 ELSE 0

\* for link_id, channel_name, link in links: the item after item k, whatever
\* became of item k; 0 when the batch is over.
next_item(n, k, success) == IF k < n THEN k + 1 ELSE 0

\* One pass of the for loop of process_pending_links: send_link_to_linkwarden, and
\* mark_link_processed if it answered True.
ForwardItem(s) ==
  /\ forwarder[s].pc = "draining"
  /\ LET me == forwarder[s]
         item == me.batch[me.pos]
     IN \E lookupOk \in BOOLEAN, createOk \in BOOLEAN, post \in ForwardOutcomes, ioOk \in IoOutcomes :
          LET r == send_link_to_linkwarden(me.cache, collections, item[2], lookupOk, createOk, post)
              m == IF r.success THEN mark_link_processed(links, item[1], ioOk)
                   ELSE [ok |-> FALSE, links |-> links]
              nxt == next_item(Len(me.batch), me.pos, r.success)
              entry == [success |-> r.success, marked |-> r.success /\ m.ok]
              resolution == [key |-> item[2], before |-> me.cache[item[2]], cached |-> r.res.cached,
                             lookup |-> r.res.lookup, create |-> r.res.create,
                             collection |-> r.res.collection, forward |-> r.forward]
          IN /\ Len(r.res.collections) <= MaxCollections
             /\ forwarder' = [forwarder EXCEPT ![s] =
                  [@ EXCEPT !.cache = r.res.cache, !.log = Append(@, entry), !.last = resolution,
                            !.pos = nxt, !.pc = process_links_loop(Len(me.batch), nxt)]]
             /\ collections' = r.res.collections
             /\ links' = m.links
             /\ forwarded' = IF r.forward = "ok" THEN forwarded \cup {item[3]} ELSE forwarded
             /\ drainRun' = IF ~(r.success /\ m.ok) THEN NoRun
                            ELSE IF nxt = 0 THEN NextCycle(drainRun) ELSE drainRun
  /\ FeedsUnchanged
  /\ UNCHANGED <<links_per_batch, qret>>

\* The process ends (asyncio.run returns and cancels what is left, or the process is
\* killed, at any statement): every task is gone, the links table stays.
ProcessExit ==
  /\ \E s \in Slots : forwarder[s].pc \notin {"none", "dead"}
  /\ forwarder' = [s \in Slots |->
       IF forwarder[s].pc = "none" THEN forwarder[s]
       ELSE Gone(forwarder[s])]
  /\ drainRun' = IF Busy THEN NoRun ELSE drainRun
  /\ FeedsUnchanged
  /\ UNCHANGED <<links, links_per_batch, collections, qret, forwarded>>

\* features.linkwarden.enabled set, no feed enabled; any batch size, and a
\* Linkwarden service that may hold a collection already.
InitLinks ==
  /\ enabled = {}
  /\ features = [g \in Feeds |-> DefaultFeatures(g)]
  /\ poll_interval = [g \in Feeds |-> ConfiguredPollInterval(g)]
  /\ catalog = [g \in Feeds |-> [i \in Ids |-> "valid"]]
  /\ dbFaults = TRUE
  /\ InitFeedMonitors
  /\ SupervisorOff
  /\ links = <<>>
  /\ links_per_batch \in 1..MaxLimit
  /\ forwarder = [s \in Slots |-> NoForwarder]
  /\ collections \in {<<>>, <<"web">>}
  /\ qret = NoLinkRet
  /\ forwarded = {}
  /\ drainRun = NoRun

NextLinks ==
  \/ \E s \in Slots : ForwarderStart(s)
  \/ \E s \in Slots : ForwarderReady(s)
  \/ \E s \in Slots : Ingest(s)
  \/ \E s \in Slots : IngestDone(s)
  \/ \E s \in Slots : OnMessage(s)
  \/ \E s \in Slots, ioOk \in IoOutcomes : DrainBegin(s, ioOk)
  \/ \E s \in Slots : ForwardItem(s)
  \/ ProcessExit

SpecLinks == InitLinks /\ [][NextLinks]_vars

\* The links Linkwarden rejects on every attempt (say its POST answers 400 for
\* them): the first links_per_batch links posted.  Every other link is accepted.
Rejected == {FirstPosted[i] : i \in 1..links_per_batch}

\* One pass of the for loop of process_pending_links in that environment: the
\* collection requests are answered, and the forward of an item succeeds exactly
\* if its link is not one of the rejected.
ForwardItemFixed(s) ==
  /\ ForwardItem(s)
  /\ forwarder'[s].last.lookup # "failed"
  /\ forwarder'[s].last.create # "failed"
  /\ LET me == forwarder[s]
     IN Last(forwarder'[s].log).success <=> (me.batch[me.pos][3] \notin Rejected)

\* One forwarder in a process that keeps running, with a database that never
\* fails.
InitQueueLive ==
  /\ enabled = {}
  /\ features = [g \in Feeds |-> DefaultFeatures(g)]
  /\ poll_interval = [g \in Feeds |-> ConfiguredPollInterval(g)]
  /\ catalog = [g \in Feeds |-> [i \in Ids |-> "valid"]]
  /\ dbFaults = FALSE
  /\ InitFeedMonitors
  /\ SupervisorOff
  /\ links = <<>>
  /\ links_per_batch \in 1..MaxLimit
  /\ forwarder = [s \in Slots |-> NoForwarder]
  /\ collections \in {<<>>, <<"web">>}
  /\ qret = NoLinkRet
  /\ forwarded = {}
  /\ drainRun = NoRun

NextQueueLive ==
  \/ ForwarderStart(1)
  \/ ForwarderReady(1)
  \/ Ingest(1)
  \/ IngestDone(1)
  \/ OnMessage(1)
  \/ DrainBegin(1, TRUE)
  \/ ForwardItemFixed(1)

\* Fair scheduling: the event loop runs the forwarder's start() task and its loop
\* task whenever they are ready (the client becomes ready, the histories end,
\* each sleep ends, each request is answered).  Messages arrive or not.
FairQueueLive ==
  /\ WF_vars(ForwarderStart(1))
  /\ WF_vars(ForwarderReady(1))
  /\ WF_vars(IngestDone(1))
  /\ WF_vars(DrainBegin(1, TRUE))
  /\ WF_vars(ForwardItemFixed(1))

SpecQueueLive == InitQueueLive /\ [][NextQueueLive]_vars /\ FairQueueLive

\* ------------------------------------------------------- the supervisor
\* An asyncio task is "pending" until it ends; "cancelling" is pending with a
\* cancel() requested and the CancelledError not yet raised in it.  It ends "done"
\* (returned), "failed" (an exception left its coroutine) or "cancelled".
Terminal(st) == st \in {"done", "failed", "cancelled"}
TaskOf(ts, i) == ts[tasks[i][1]][tasks[i][2]]
SupUnchanged == UNCHANGED <<cfgVars, svcVars, monVars, store, histVars, ret, linkVars>>
ConfigUnchanged == UNCHANGED <<max_restarts, restart_on_failure, monitors, script>>

\* The main coroutine is between two awaits that suspend: nothing else runs.
SupBusy ==
  \/ main.pc \in {"restart", "return", "raise"}
  \/ main.pc = "stopping" /\ stopper[0].pc \in {"created", "finished", "raised"}

Live == main.pc # "exited"

\* Faulty variant of TaskRaises: a cancelled task counts as a failed one.
TaskRaises_cancelled(st) == st \in {"failed", "cancelled"}

\* _run_discord_clients, the check of a task of the done set: `not
\* task.cancelled()` and `await task` raising an Exception.
TaskRaises(st) == st = "failed"

\* Faulty variant of stop_loop: every task is cancelled and none is awaited.
stop_loop_no_await(i, ts) ==
  [out |-> "end", idx |-> Len(tasks) + 1,
   task |-> [r \in Runs |-> [n \in TaskNames |->
               IF ts[r][n] = "pending" /\ n \in MonitorNames THEN "cancelling" ELSE ts[r][n]]]]

\* stop(), the for loop over self.tasks from position i on, up to the first await
\* that suspends.  A task that is cancelled() is skipped; cancel() on a task that
\* has ended does nothing and `await task` returns at once for a task that
\* returned and raises the task's exception for a task that failed; for a task
\* not yet ended cancel() is requested and the await suspends.
stop_loop(i, ts) ==
  LET open == {j \in i..Len(tasks) : TaskOf(ts, j) \notin {"cancelled", "done"}}
  IN IF open = {} THEN [out |-> "end", idx |-> Len(tasks) + 1, task |-> ts]
     ELSE LET j == CHOOSE j \in open : \A k \in open : j <= k
          IN IF TaskOf(ts, j) = "failed"
             THEN [out |-> "raised", idx |-> j, task |-> ts]
             ELSE [out |-> "await", idx |-> j,
                   task |-> [ts EXCEPT ![tasks[j][1]][tasks[j][2]] = "cancelling"]]

\* The main coroutine calls stop(); `after` is what follows its return.
CallStop(m, after) ==
  /\ main' = [m EXCEPT !.pc = "stopping", !.after = after]
  /\ stopper' = [stopper EXCEPT ![0] = [pc |-> "created", idx |-> 1]]

\* start() up to the asyncio.wait of _run_discord_clients: a new client, the
\* monitors, the client task, one task per monitor (appended to self.tasks) and
\* the task of shutdown_event.wait().  Called by asyncio.run, or by restart() when
\* its asyncio.sleep(restart_delay) is over; by then the client task and the
\* shutdown_event.wait() task of the start before, cancelled and not awaited, have
\* ended.
ServiceStart ==
  /\ main.pc \in {"boot", "restart_sleep"}
  /\ ~SupBusy
  /\ starts < MaxStarts
  /\ starts' = starts + 1
  /\ task' = [r \in Runs |-> [n \in TaskNames |->
       IF r = starts + 1
       THEN IF n \in {"client", "shutdown_event"} \/ (\E i \in 1..Len(monitors) : monitors[i] = n)
            THEN "pending" ELSE "none"
       ELSE IF task[r][n] = "cancelling" /\ n \notin MonitorNames THEN "cancelled"
            ELSE task[r][n]]]
  /\ tasks' = tasks \o [i \in 1..Len(monitors) |-> <<starts + 1, monitors[i]>>]
  /\ main' = [main EXCEPT !.pc = "wait", !.frames = Append(@, "body"), !.woke = "none",
                          !.event_set = shutdown_event]
  /\ UNCHANGED <<restart_count, shutdown_event, closes, stopper, exit_status>>
  /\ ConfigUnchanged /\ SupUnchanged

\* asyncio.wait(..., FIRST_COMPLETED) returns: the pending tasks are cancelled (not
\* awaited), and the first task of the done set that is not cancelled and whose
\* await raises leads to restart() if restart_on_failure is set; else the
\* coroutine returns.
WaitReturns ==
  /\ main.pc = "wait"
  /\ ~SupBusy
  /\ LET done == {n \in TaskNames : Terminal(task[starts][n])}
         failure == \E n \in done : TaskRaises(task[starts][n])
         woke == IF failure THEN "failure"
                 ELSE IF "shutdown_event" \in done THEN "shutdown" ELSE "task_end"
     IN /\ done # {}
        /\ task' = [task EXCEPT ![starts] =
             [n \in TaskNames |-> IF @[n] = "pending" THEN "cancelling" ELSE @[n]]]
        /\ main' = IF failure /\ restart_on_failure
                   THEN [main EXCEPT !.pc = "restart", !.woke = woke,
                                     !.frames = SetLast(@, "inner")]
                   ELSE [main EXCEPT !.pc = "return", !.woke = woke]
  /\ UNCHANGED <<restart_count, shutdown_event, starts, tasks, closes, stopper, exit_status>>
  /\ ConfigUnchanged /\ SupUnchanged

\* A variant of the budget test that lets one more restart through.
budget_exhausted_late(count, max) == count > max

\* The test restart() makes on entry: the restart budget is used up.
budget_exhausted(count, max) == count >= max

\* restart(): with the budget used up stop() and return; else count the restart,
\* stop(), sleep the restart delay and start() again.
Restart ==
  /\ main.pc = "restart"
  /\ IF budget_exhausted(restart_count, max_restarts)
     THEN /\ restart_count' = restart_count
          /\ CallStop([main EXCEPT !.exhausted = TRUE], "return")
     ELSE /\ restart_count' = restart_count + 1
          /\ CallStop(main, "sleep")
  /\ UNCHANGED <<shutdown_event, starts, task, tasks, closes, exit_status>>
  /\ ConfigUnchanged /\ SupUnchanged

\* An invocation of stop() runs: from its call, or from the end of the task it was
\* awaiting.  After the loop the client of the latest start is closed unless
\* is_closed() (close() sets the closed flag before it suspends), and then
\* shutdown_event is set.
StopRun(i) ==
  /\ Live
  /\ stopper[i].pc \in {"created", "await"}
  /\ IF i = 0 /\ stopper[i].pc = "created" THEN TRUE ELSE ~SupBusy
  /\ stopper[i].pc = "await" => Terminal(TaskOf(task, stopper[i].idx))
  /\ LET l == stop_loop(stopper[i].idx, task)
     IN /\ task' = l.task
        /\ IF l.out = "end"
           THEN IF closes[starts] = 0
                THEN /\ closes' = [closes EXCEPT ![starts] = 1]
                     /\ stopper' = [stopper EXCEPT ![i] = [pc |-> "closing", idx |-> 0]]
                     /\ UNCHANGED shutdown_event
                ELSE /\ shutdown_event' = TRUE
                     /\ stopper' = [stopper EXCEPT ![i] = [pc |-> "finished", idx |-> 0]]
                     /\ UNCHANGED closes
           ELSE /\ stopper' = [stopper EXCEPT ![i] =
                     [pc |-> l.out, idx |-> IF l.out = "raised" THEN 0 ELSE l.idx]]
                /\ UNCHANGED <<closes, shutdown_event>>
  /\ UNCHANGED <<restart_count, starts, tasks, main, exit_status>>
  /\ ConfigUnchanged /\ SupUnchanged

\* await self.client.close() returns in an invocation of stop():
\* self.shutdown_event.set().
StopClosed(i) ==
  /\ Live
  /\ stopper[i].pc = "closing"
  /\ ~SupBusy
  /\ shutdown_event' = TRUE
  /\ stopper' = [stopper EXCEPT ![i] = [@ EXCEPT !.pc = "finished"]]
  /\ UNCHANGED <<restart_count, starts, task, tasks, closes, main, exit_status>>
  /\ ConfigUnchanged /\ SupUnchanged

\* The stop() the main coroutine awaited is over.  If it returned: restart() goes
\* on to its sleep, or returns, or start() goes on to sys.exit(1); if it raised,
\* the exception is in the main coroutine.
MainAfterStop ==
  /\ main.pc = "stopping"
  /\ stopper[0].pc \in {"finished", "raised"}
  /\ stopper' = [stopper EXCEPT ![0] = NoStop]
  /\ IF stopper[0].pc = "raised"
     THEN /\ main' = [main EXCEPT !.pc = "raise"]
          /\ UNCHANGED exit_status
     ELSE CASE main.after = "sleep" ->
                 /\ main' = [main EXCEPT !.pc = "restart_sleep"]
                 /\ UNCHANGED exit_status
            [] main.after = "return" ->
                 /\ main' = [main EXCEPT !.pc = "return"]
                 /\ UNCHANGED exit_status
            [] OTHER ->
                 /\ main' = [main EXCEPT !.pc = "exited"]
                 /\ exit_status' = 1
  /\ UNCHANGED <<restart_count, shutdown_event, starts, task, tasks, closes>>
  /\ ConfigUnchanged /\ SupUnchanged

\* An exception travels up the main coroutine.  Raised by the restart() of the
\* task check it is caught by the `except Exception` of _run_discord_clients,
\* which calls restart() (or stop()); raised there it is caught by the `except
\* Exception` of start(), which calls stop() and then sys.exit(1); raised there it
\* leaves start(): in the start() that restart() awaited it goes on in the frame
\* below, and out of the first start() it reaches asyncio.run and the handler of
\* start_service, which exits with status 1.
MainRaise ==
  /\ main.pc = "raise"
  /\ LET level == Last(main.frames)
     IN CASE level = "inner" ->
               /\ IF restart_on_failure
                  THEN /\ main' = [main EXCEPT !.pc = "restart", !.frames = SetLast(@, "outer")]
                       /\ UNCHANGED stopper
                  ELSE CallStop([main EXCEPT !.frames = SetLast(@, "outer")], "return")
               /\ UNCHANGED exit_status
          [] level = "outer" ->
               /\ CallStop([main EXCEPT !.frames = SetLast(@, "start_except")], "sys_exit")
               /\ UNCHANGED exit_status
          [] OTHER ->
               /\ UNCHANGED stopper
               /\ IF Len(main.frames) = 1
                  THEN /\ main' = [main EXCEPT !.pc = "exited", !.frames = <<>>]
                       /\ exit_status' = 1
                  ELSE /\ main' = [main EXCEPT !.frames = SubSeq(@, 1, Len(@) - 1)]
                       /\ UNCHANGED exit_status
  /\ UNCHANGED <<restart_count, shutdown_event, starts, task, tasks, closes>>
  /\ ConfigUnchanged /\ SupUnchanged

\* _run_discord_clients returns: so does start(), the restart() that awaited it
\* and every frame below; asyncio.run returns and start_service ends, exit
\* status 0.
MainReturn ==
  /\ main.pc = "return"
  /\ main' = [main EXCEPT !.pc = "exited", !.frames = <<>>]
  /\ exit_status' = 0
  /\ UNCHANGED <<restart_count, shutdown_event, starts, task, tasks, closes, stopper>>
  /\ ConfigUnchanged /\ SupUnchanged

\* SIGINT or SIGTERM: signal_handler creates a task of stop().
Signal(k) ==
  /\ Live
  /\ ~SupBusy
  /\ starts >= 1
  /\ stopper[k].pc = "none"
  /\ IF k = 1 THEN TRUE ELSE stopper[k - 1].pc # "none"
  /\ stopper' = [stopper EXCEPT ![k] = [pc |-> "created", idx |-> 1]]
  /\ UNCHANGED <<restart_count, shutdown_event, starts, task, tasks, closes, main, exit_status>>
  /\ ConfigUnchanged /\ SupUnchanged

\* An exception leaves the coroutine of a task: client.start() (login or
\* connection error), or the start() of a monitor outside its try block.
TaskFails(r, n) ==
  /\ Live
  /\ ~SupBusy
  /\ n # "shutdown_event"
  /\ task[r][n] = "pending"
  /\ task' = [task EXCEPT ![r][n] = "failed"]
  /\ UNCHANGED <<restart_count, shutdown_event, starts, tasks, closes, main, stopper, exit_status>>
  /\ ConfigUnchanged /\ SupUnchanged

\* A variant in which the forwarder of any start gets as far as its loop.
forwarder_can_finish_always(event_at_start) == TRUE

\* LinkwardenForwarder.start() reaches its create_task only after
\* client.wait_until_ready() and the channel histories, which take network round
\* trips of the client created by this start.  When shutdown_event was already
\* set at the start, the shutdown_event.wait() task ends in its first step and
\* the asyncio.wait returns two loop iterations later, cancelling the forwarder's
\* task while it still waits for the client.
forwarder_can_finish(event_at_start) == ~event_at_start

\* The drain loop task created by the forwarder of start r: a detached task, in
\* no task list, whose forwarder's stop() nothing calls; it runs from the return
\* of LinkwardenForwarder.start() to the end of the process.
DrainLoopAlive(r) == Live /\ task[r]["linkwarden"] = "done"

\* The coroutine of a task returns: shutdown_event.wait() once the event is set,
\* client.start() once the client was closed, LinkwardenForwarder.start() when it
\* has created its loop task.  The start() of a feed monitor never returns.
TaskReturns(r, n) ==
  /\ Live
  /\ ~SupBusy
  /\ task[r][n] = "pending"
  /\ CASE n = "shutdown_event" -> shutdown_event
       [] n = "client" -> closes[r] > 0
       [] n = "linkwarden" -> forwarder_can_finish(r = starts /\ main.event_set)
       [] OTHER -> FALSE
  /\ task' = [task EXCEPT ![r][n] = "done"]
  /\ UNCHANGED <<restart_count, shutdown_event, starts, tasks, closes, main, stopper, exit_status>>
  /\ ConfigUnchanged /\ SupUnchanged

\* The CancelledError is raised in a task whose cancel() was requested: no
\* coroutine of the service catches it, the task ends cancelled.
TaskCancelled(r, n) ==
  /\ Live
  /\ ~SupBusy
  /\ task[r][n] = "cancelling"
  /\ task' = [task EXCEPT ![r][n] = "cancelled"]
  /\ UNCHANGED <<restart_count, shutdown_event, starts, tasks, closes, main, stopper, exit_status>>
  /\ ConfigUnchanged /\ SupUnchanged

\* A service with one feed monitor, or with a feed monitor and the Linkwarden
\* forwarder, any restart budget up to MaxRestarts and either restart policy.
InitService ==
  /\ enabled = {"machines"}
  /\ features = [g \in Feeds |-> DefaultFeatures(g)]
  /\ poll_interval = [g \in Feeds |-> ConfiguredPollInterval(g)]
  /\ catalog = [g \in Feeds |-> [i \in Ids |-> "valid"]]
  /\ dbFaults = TRUE
  /\ LinkwardenOff
  /\ InitFeedMonitors
  /\ max_restarts \in 0..MaxRestarts
  /\ restart_on_failure \in BOOLEAN
  /\ monitors \in {<<"machines">>, <<"machines", "linkwarden">>}
  /\ NewService

NextService ==
  \/ ServiceStart
  \/ WaitReturns
  \/ Restart
  \/ \E i \in Invokers : StopRun(i)
  \/ \E i \in Invokers : StopClosed(i)
  \/ MainAfterStop
  \/ MainRaise
  \/ MainReturn
  \/ \E k \in 1..MaxSignals : Signal(k)
  \/ \E r \in Runs, n \in TaskNames : TaskFails(r, n)
  \/ \E r \in Runs, n \in TaskNames : TaskReturns(r, n)
  \/ \E r \in Runs, n \in TaskNames : TaskCancelled(r, n)

SpecService == InitService /\ [][NextService]_vars

\* =================================================================== claims
\* "Delivery is invoked" for a record when process_new_* gets to its delivery steps
\* (for a challenge: past the required-field validation); dlog holds one entry for
\* every such invocation of the current poll.
Sleeping(f) == pc[f] \in {"sleep_interval", "sleep_backoff"}
Ended(e) == e.end \in {"returned", "raised"}

\* A record passes what the feed checks before it delivers: the keys the loop reads,
\* and for challenges the required fields.
PassesValidation(f, r) ==
  CASE f = "machines"   -> r.shape \in {"valid", "empty_field", "no_field"}
    [] f = "challenges" -> r.shape = "valid"
    [] f = "notices"    -> r.shape # "no_id"

\* C1: a record that two consecutive polls of a feed return unchanged is delivered at
\* most once over the two polls: no id delivered in the previous poll is delivered
\* again in the current one.
C1_DedupIdempotence ==
  \A f \in Feeds : \A k \in DOMAIN dlog[f] : dlog[f][k].id \notin prevDelivered[f]

\* C2: over the whole execution (polls, cancellations, restarts) delivery is invoked
\* at most once for every record id of every feed.
C2_AtMostOnceAcrossRestarts ==
  \A f \in Feeds : \A i \in Ids : deliverCount[f][i] <= 1

\* C3: in a poll, the records delivery is invoked for are exactly the examined records
\* that pass validation and whose id was not in the store when they were examined;
\* each is delivered once and is the fetched record at its position.
C3_DeliversExactlyUnseen ==
  \A f \in Feeds :
    LET due == {examined[f][k].idx : k \in {m \in DOMAIN examined[f] :
                   /\ ~examined[f][m].inStore
                   /\ PassesValidation(f, examined[f][m].rec)}}
        got == {dlog[f][k].idx : k \in DOMAIN dlog[f]}
    IN /\ got = due
       /\ Cardinality(got) = Len(dlog[f])
       /\ \A k \in DOMAIN dlog[f] : dlog[f][k].id = fetched[f][dlog[f][k].idx].id

\* C3 witness: the store held id 1, the poll fetched [1, 2], only 2 was delivered and
\* the store now holds 1 and 2.
C3_Witness ==
  \E f \in Feeds :
    /\ pc[f] = "sleep_interval"
    /\ Len(fetched[f]) = 2 /\ fetched[f][1].id = 1 /\ fetched[f][2].id = 2
    /\ Len(examined[f]) = 2 /\ examined[f][1].inStore /\ ~examined[f][2].inStore
    /\ Len(dlog[f]) = 1 /\ dlog[f][1].id = 2 /\ dlog[f][1].end = "returned"
    /\ RowIds(store[f]) = {1, 2}

\* C4: once delivery was invoked for a record and has ended, however it ended, the
\* record's id is in the feed's store.
C4_SeenOnAnyOutcome ==
  \A f \in Feeds : \A k \in DOMAIN dlog[f] :
    Ended(dlog[f][k]) => dlog[f][k].id \in RowIds(store[f])

\* C5: with every step enabled, a delivery that has ended has attempted the
\* announcement, the event and the thread, whatever failed on the way.
C5_StepIndependence ==
  \A f \in Feeds : features[f] = AllSteps =>
    \A k \in DOMAIN dlog[f] : Ended(dlog[f][k]) => dlog[f][k].attempted = AllSteps

\* C6: a fetched challenge that fails the required-field validation is not delivered
\* and is not inserted into the challenges store (so the next poll examines it as
\* unseen again).
C6_MalformedRetry ==
  \A k \in DOMAIN examined["challenges"] :
    LET e == examined["challenges"][k]
    IN ~PassesValidation("challenges", e.rec) =>
         /\ \A m \in DOMAIN dlog["challenges"] : dlog["challenges"][m].idx # e.idx
         /\ HasId(e.rec) => e.rec.id \notin RowIds(store["challenges"])

\* C7: a poll whose fetch failed delivers nothing, leaves the store as it was and
\* leaves the watcher asleep in its loop (not ended, not failed), from where its only
\* own step is the next poll.
C7_FailedFetchIsTransient ==
  [][\A f \in Feeds : (lastFetch'[f] = "failed" /\ pc[f] # "cancelled" /\ Poll(f)) =>
        /\ running'[f]
        /\ pc'[f] \in {"sleep_interval", "sleep_backoff"}
        /\ store'[f] = store[f]
        /\ dlog'[f] = <<>>
        /\ deliverCount'[f] = deliverCount[f]]_vars

\* C7 witness: a watcher that delivered and stored a record earlier sleeps after a
\* failed fetch.
C7_Witness ==
  \E f \in Feeds :
    /\ lastFetch[f] = "failed" /\ Sleeping(f)
    /\ store[f] # {} /\ \E i \in Ids : deliverCount[f][i] > 0

\* C8 as stated: after a poll whose fetch failed the watcher sleeps the fixed backoff.
C8_BackoffAfterFailedFetch ==
  \A f \in Feeds : (lastFetch[f] = "failed" /\ Sleeping(f)) =>
    pc[f] = "sleep_backoff" /\ SleepSeconds(f) = BackoffSeconds

\* C8 amended: after a poll whose fetch failed the watcher sleeps the configured poll
\* interval, as after any poll that raised nothing; it sleeps the fixed backoff only
\* after a fetch that succeeded and a loop that raised.
C8_PollIntervalAfterFailedFetch ==
  \A f \in Feeds :
    /\ (lastFetch[f] = "failed" /\ Sleeping(f)) =>
          pc[f] = "sleep_interval" /\ SleepSeconds(f) = poll_interval[f]
    /\ pc[f] = "sleep_backoff" =>
          /\ SleepSeconds(f) = BackoffSeconds
          /\ lastFetch[f] = "ok" /\ fetched[f] # <<>>

\* C8 witness: the machines watcher sleeps 600 s after a failed fetch.
C8_Witness ==
  /\ lastFetch["machines"] = "failed" /\ pc["machines"] = "sleep_interval"
  /\ SleepSeconds("machines") = DefaultPollInterval
  /\ SleepSeconds("machines") # BackoffSeconds

\* C9: the deliveries of a poll are invoked in the order of the fetched list, and a
\* delivery is invoked only when the one before it has ended.
C9_OriginOrder ==
  \A f \in Feeds : \A k, m \in DOMAIN dlog[f] :
    k < m => dlog[f][k].idx < dlog[f][m].idx /\ dlog[f][k].end # "running"

\* C9 witness: two different records were delivered in one poll.
C9_Witness ==
  \E f \in Feeds :
    /\ Len(dlog[f]) = 2 /\ dlog[f][1].id # dlog[f][2].id
    /\ Ended(dlog[f][2])

\* C10: a table holds at most one row per id; no call removes or changes a row; an
\* insert of an id that is present returns False, raises nothing and writes nothing.
C10_StoreInvariant ==
  /\ [](\A f \in Feeds : \A x, y \in store[f] : x.id = y.id => x = y)
  /\ [][\A f \in Feeds : store[f] \subseteq store'[f]]_vars
  /\ [][\A f \in Feeds, r \in Records, ioOk \in BOOLEAN :
          (ApiAdd(f, r, ioOk) /\ HasId(r) /\ r.id \in RowIds(store[f])) =>
             ~ret'.ok /\ ~ret'.raised /\ store' = store]_vars

\* C10 witness: an insert of an id that was present returned False.
C10_Witness ==
  /\ ret.op = "add" /\ ret.present /\ ~ret.ok
  /\ \E f \in Feeds : Cardinality(store[f]) = MaxId

\* ------------------------------------------------------- the links queue
PendingIds(tbl) == {tbl[i].id : i \in {j \in 1..Len(tbl) : ~tbl[j].processed}}
SmallerOf(a, b) == IF a < b THEN a ELSE b

\* C11: queue uniqueness.  In every state no two rows of the links table hold the
\* same link, whatever save_link calls were made, and a save_link call with a link
\* that is stored already (processed or not) returns False and writes nothing.
C11_QueueUniqueness ==
  /\ [](\A i, j \in 1..Len(links) : links[i].link = links[j].link => i = j)
  /\ [][\A l \in LinkPayloads, ioOk \in BOOLEAN : \A c \in PostedIn(l) :
          ApiSaveLink(c, l, ioOk) /\ link_stored(links, l) => ~qret'.ok /\ links' = links]_vars

\* A save_link call came for a link whose row is processed already, and was refused.
C11_Witness ==
  /\ qret.op = "save" /\ qret.present /\ ~qret.ok
  /\ \E i \in 1..Len(links) : links[i].link = qret.link /\ links[i].processed
  /\ Len(links) >= 2

\* C12: the processed flag is monotonic.  A row that is processed stays in the table
\* and stays processed through every call of save_link, get_unprocessed_links and
\* mark_link_processed, and a mark_link_processed(id) that follows a successful
\* mark_link_processed(id) leaves the table as it is.
C12_ProcessedMonotonic ==
  /\ [][\A i \in 1..Len(links) :
          links[i].processed =>
            i <= Len(links') /\ links'[i].id = links[i].id /\ links'[i].processed]_vars
  /\ [][\A id \in 1..MaxLinks, ioOk \in BOOLEAN :
          ApiMarkProcessed(id, ioOk) /\ qret.op = "mark" /\ qret.id = id /\ qret.ok
            => links' = links]_vars

\* mark_link_processed succeeded on a row that was processed already.
C12_Witness ==
  /\ qret.op = "mark" /\ qret.ok /\ qret.was
  /\ \E i \in 1..Len(links) : links[i].id = qret.id /\ links[i].processed

Max0(n) == IF n > 0 THEN n ELSE 0
EmptyCache == [c \in Channels |-> 0]

\* C13: processed only after a confirmed forward.  In every state a processed row's
\* link is one whose POST /api/v1/links was answered with success before, and a pass
\* of the drain loop whose collection resolution or forward failed leaves the table
\* as it is.
C13_ProcessedOnlyAfterForward ==
  /\ [](\A i \in 1..Len(links) : links[i].processed => links[i].link \in forwarded)
  /\ [][\A s \in Slots :
          ForwardItem(s) /\ (forwarder'[s].last.collection = 0 \/ forwarder'[s].last.forward # "ok")
            => links' = links]_vars

\* A batch in which one item failed and stayed unprocessed and another was forwarded
\* and marked.
C13_Witness ==
  \E s \in Slots :
    LET me == forwarder[s]
    IN /\ Len(me.log) = 2
       /\ ~me.log[1].success /\ me.batch[1][1] \in PendingIds(links)
       /\ me.log[2].marked /\ me.batch[2][1] \notin PendingIds(links)
       /\ me.last.forward = "ok"

\* C16: get_unprocessed_links is read-only.  The call that opens a drain cycle
\* leaves every row as it is, and any row handed out by an earlier call (to this
\* forwarder or to one that has ended) that is still unprocessed is handed out again.
C16_DequeueReadOnly ==
  [][\A s \in Slots, ioOk \in BOOLEAN :
       DrainBegin(s, ioOk) =>
         /\ links' = links
         /\ ioOk => \A t \in Slots : \A i \in TupleIds(forwarder[t].batch) :
                      i \in PendingIds(links) => i \in TupleIds(forwarder'[s].batch)]_vars

\* The first forwarder ended between the dequeue and the mark of an item, and the
\* second forwarder has been handed that item again.
C16_Witness ==
  /\ forwarder[1].pc = "dead" /\ forwarder[1].pos # 0
  /\ forwarder[2].pc = "draining"
  /\ forwarder[1].batch[forwarder[1].pos][1] \in TupleIds(forwarder[2].batch)

\* C17: drain progress.  In a run of drain cycles that starts with k unprocessed
\* rows, with every forward and every database call succeeding and nothing enqueued,
\* after n cycles max(0, k - n * links_per_batch) rows are unprocessed: each cycle
\* marks min(links_per_batch, remaining) rows, and none is left after
\* ceil(k / links_per_batch) cycles.
C17_DrainProgress ==
  drainRun.k >= 0 /\ ~Busy =>
    /\ Cardinality(PendingIds(links)) = Max0(drainRun.k - drainRun.n * links_per_batch)
    /\ drainRun.n * links_per_batch >= drainRun.k => PendingIds(links) = {}
    /\ (drainRun.n - 1) * links_per_batch < drainRun.k \/ drainRun.n = 0

\* Three rows drained with batch size two: the second cycle has taken the last one.
C17_Witness ==
  /\ drainRun.k = 3 /\ drainRun.n = 2 /\ links_per_batch = 2
  /\ ~Busy /\ PendingIds(links) = {}

\* C18: a failure does not block the batch.  At the end of a drain cycle every item
\* of the batch has been tried, inside a cycle every item before the current one has
\* been, and an item whose send failed is unprocessed.
C18_FailureDoesNotBlockBatch ==
  \A s \in Slots :
    LET me == forwarder[s]
    IN /\ me.pc = "sleeping" => Len(me.log) = Len(me.batch)
       /\ me.pc = "draining" => me.pos <= Len(me.batch) /\ Len(me.log) = me.pos - 1
       /\ \A i \in 1..Len(me.log) : ~me.log[i].success => me.batch[i][1] \in PendingIds(links)

\* A cycle is over in which the first item failed and the second was tried and marked.
C18_Witness ==
  \E s \in Slots :
    LET me == forwarder[s]
    IN /\ me.pc = "sleeping" /\ Len(me.batch) = 2
       /\ ~me.log[1].success /\ me.log[2].marked

\* C19: a failed remote lookup is a resolution failure.  When the lookup request
\* fails no create is issued and the item gets no collection; a create is issued
\* only after a lookup that succeeded.
C19_FailedLookupSkips ==
  \A s \in Slots :
    LET r == forwarder[s].last
    IN /\ r.lookup = "failed" => r.create = "none" /\ r.collection = 0
       /\ r.create # "none" => r.lookup = "ok"

\* C20: resolution cache.  A cache entry, once set, keeps its value as long as the
\* forwarder lives; resolving a cached key answers the entry with no lookup and no
\* create; a resolution that fails leaves the cache as it is; a new forwarder starts
\* with an empty cache.
C20_ResolutionCache ==
  /\ [][\A s \in Slots : \A c \in Channels :
          forwarder[s].cache[c] # 0 /\ forwarder'[s].pc # "dead"
            => forwarder'[s].cache[c] = forwarder[s].cache[c]]_vars
  /\ [](\A s \in Slots :
          LET r == forwarder[s].last
          IN r.before # 0 =>
               r.cached /\ r.lookup = "none" /\ r.create = "none" /\ r.collection = r.before)
  /\ [][\A s \in Slots :
          ForwardItem(s) /\ forwarder'[s].last.collection = 0
            => forwarder'[s].cache = forwarder[s].cache]_vars
  /\ [][\A s \in Slots :
          forwarder[s].pc = "none" /\ forwarder'[s].pc # "none"
            => forwarder'[s].cache = EmptyCache]_vars

\* The first forwarder is gone and the second one, which started with an empty
\* cache, has filled an entry and then resolved that key from its cache.
C20_Witness ==
  /\ forwarder[1].pc = "dead"
  /\ forwarder[2].last.cached /\ forwarder[2].last.before # 0
  /\ forwarder[2].cache[forwarder[2].last.key] = forwarder[2].last.collection

\* The seconds of the asyncio.sleep a loop task is in: batch_interval after a cycle
\* that returned, and no other sleep of the loop is reached.
LoopSleepSeconds(me) == IF me.pc = "sleeping" THEN DefaultBatchInterval ELSE 0

\* C21: rate limit.  A drain cycle handles at most links_per_batch items, so it
\* issues at most that many forward requests; when a cycle is over, with items or
\* with an empty queue, the loop task is in asyncio.sleep(batch_interval); a cycle
\* starts only from that sleep, or as the first pass of a loop task just created,
\* and a loop task is "just created" only once.
C21_RateLimit ==
  /\ [](\A s \in Slots :
          /\ Len(forwarder[s].batch) <= links_per_batch
          /\ Len(forwarder[s].log) <= Len(forwarder[s].batch)
          /\ forwarder[s].pc = "sleeping" => LoopSleepSeconds(forwarder[s]) = DefaultBatchInterval)
  /\ [][\A s \in Slots :
          LET me == forwarder[s]
              after == forwarder'[s]
          IN /\ me.pc = "draining" /\ after.pc \notin {"draining", "dead"} => after.pc = "sleeping"
             /\ me.pc # "draining" /\ after.pc = "draining" => me.pc \in {"loop_created", "sleeping"}
             /\ me.pc \in {"loop_created", "sleeping"} /\ after.pc \notin {me.pc, "dead"}
                  => after.pc \in {"draining", "sleeping"}
             /\ after.pc = "loop_created" => me.pc \in {"ingesting", "loop_created"}]_vars

\* A full batch of the largest size has been handled while more links wait: the
\* cycle stopped at links_per_batch items and the loop task sleeps.
C21_Witness ==
  \E s \in Slots :
    /\ forwarder[s].pc = "sleeping"
    /\ links_per_batch = MaxLimit
    /\ Len(forwarder[s].log) = links_per_batch
    /\ Pending(links) > 0

\* C22: an exception raised inside a drain cycle ends the task of the forwarder as
\* a failure: once a forward request has raised, the loop task is no longer
\* draining or sleeping towards a next cycle.
C22_CycleExceptionEndsTask ==
  \A s \in Slots :
    forwarder[s].last.forward = "raised" => forwarder[s].pc \notin {"draining", "sleeping"}

\* C30: cancelling a feed watcher stops it.  The cancellation ends the task at the
\* await it was suspended in and is not turned into a backoff by the handler of the
\* loop; the step that cancels writes nothing to the dedup store; a delivery cut
\* short by the cancellation has inserted nothing; and as long as the task stays
\* cancelled it fetches nothing, delivers nothing and inserts nothing.
C30_CancellationStops ==
  /\ [](\A f \in Feeds :
          dlog[f] # <<>> /\ Last(dlog[f]).end = "cancelled"
            => pc[f] = "cancelled" /\ ~Last(dlog[f]).inserted)
  /\ [][\A f \in Feeds :
          /\ pc[f] # "cancelled" /\ pc'[f] = "cancelled"
               => store' = store /\ deliverCount' = deliverCount /\ lastFetch' = lastFetch
          /\ pc[f] \in {"delivering", "sleep_interval", "sleep_backoff"} /\ store'[f] = store[f]
             /\ Len(dlog'[f]) = Len(dlog[f]) /\ dlog'[f] # dlog[f]
             /\ Last(dlog'[f]).end = "cancelled"
               => pc'[f] = "cancelled"
          /\ pc[f] = "cancelled" /\ pc'[f] = "cancelled"
               => /\ store'[f] = store[f] /\ dlog'[f] = dlog[f]
                  /\ deliverCount'[f] = deliverCount[f] /\ lastFetch'[f] = lastFetch[f]
                  /\ examined'[f] = examined[f] /\ fetched'[f] = fetched[f]]_vars

\* A watcher was cancelled in the middle of a delivery, after an earlier record of
\* the same poll had been delivered and inserted.
C30_Witness ==
  \E f \in Feeds :
    /\ pc[f] = "cancelled"
    /\ Len(dlog[f]) = 2
    /\ dlog[f][1].inserted
    /\ dlog[f][2].end = "cancelled"

\* What the supervisor and the other tasks can see of the watcher of feed g.
WatcherState(g) ==
  <<pc[g], running[g], pos[g], step[g], fetched[g], examined[g], dlog[g],
    deliverCount[g], lastFetch[g], prevDelivered[g]>>

\* A step of the watcher of f (its state moves) in which its poll cycle meets an
\* error: a fetch that failed, or an exception that reached the handler of its loop.
CycleError(f) ==
  /\ \/ pc'[f] = "sleep_backoff" /\ (pc[f] = "delivering" \/ lastFetch'[f] # "none")
     \/ lastFetch'[f] = "failed"
  /\ WatcherState(f)' # WatcherState(f)

\* C29: failure isolation between feeds.  A step in which the poll cycle of one
\* feed meets an error leaves the watcher of every other feed where it was, neither
\* ended nor cancelled, and leaves the dedup store of every other feed unchanged;
\* the failing watcher itself stays alive, so no task ends and the supervisor has
\* nothing to act on.
C29_FailureIsolation ==
  [][\A f \in enabled :
       CycleError(f) =>
         /\ pc'[f] \in {"sleep_interval", "sleep_backoff", "delivering"}
         /\ \A g \in Feeds \ {f} :
              /\ WatcherState(g)' = WatcherState(g)
              /\ store'[g] = store[g]]_vars

\* The machines watcher is in its backoff after a delivery that raised, and the
\* notices watcher has since fetched and is in the middle of a delivery of its own.
C29_Witness ==
  /\ pc["machines"] = "sleep_backoff"
  /\ dlog["machines"] # <<>> /\ Last(dlog["machines"]).end = "raised"
  /\ pc["notices"] = "delivering"
  /\ store["notices"] = {}

\* No task of any start has failed; a task of every start so far has failed; a
\* shutdown signal has arrived.
NoFailure == \A r \in Runs, n \in TaskNames : task[r][n] # "failed"
EveryStartFailed == \A r \in 1..starts : \E n \in TaskNames : task[r][n] = "failed"
Signalled == \E k \in 1..MaxSignals : stopper[k].pc # "none"
LiveTask(st) == st \in {"pending", "cancelling"}

\* C23: restart bound.  The watcher set is never started more than max_restarts
\* times after the first start; and with restart_on_failure set, no signal, and a
\* task failing after every start, the service has made exactly max_restarts
\* restarts when it stops.
C23_RestartBound ==
  /\ starts <= max_restarts + 1
  /\ main.pc = "exited" /\ restart_on_failure /\ ~Signalled /\ EveryStartFailed
       => starts = max_restarts + 1

\* C24: a restart recovers the watcher set.  After a restart the wait of the new
\* run ends only by a task failure or a shutdown signal (or by a monitor task that
\* returned): its shutdown_event.wait() task does not end the run unless a signal
\* has arrived.
C24_RestartedRunKeepsRunning ==
  starts >= 2 /\ main.woke = "shutdown" => Signalled

\* C25: once the restart budget is used up the process ends with a non-zero exit
\* status and starts no watcher again; a shutdown with no failed task ends with
\* exit status 0.
C25_ExhaustedExitsNonZero ==
  /\ main.exhausted => main.pc \notin {"restart_sleep", "wait"}
  /\ main.pc = "exited" /\ main.exhausted => exit_status # 0
  /\ main.pc = "exited" /\ NoFailure => exit_status = 0

\* C26: a clean shutdown never triggers a restart.  As long as no task has failed,
\* restart() is not called, restart_count stays 0, the watcher set is started once,
\* no exception is in the main coroutine and the process, if it has ended, ended
\* with status 0; a wait is taken as a failure only if a task of the run failed;
\* and restart_count changes only in a run one of whose tasks failed.
C26_CleanShutdownNoRestart ==
  /\ [](NoFailure =>
          /\ restart_count = 0 /\ starts <= 1
          /\ main.pc \notin {"restart", "restart_sleep", "raise", "stopping"}
          /\ exit_status \in {-1, 0})
  /\ [](main.woke = "failure" => \E n \in TaskNames : task[starts][n] = "failed")
  /\ [][restart_count' # restart_count
          => \E n \in TaskNames : task[starts][n] = "failed"]_vars

\* A signal arrived while every task was running; its stop() cancelled the
\* monitors and closed the client, the client task returned, and the process has
\* ended with status 0 and no restart.
C26_Witness ==
  /\ NoFailure /\ Signalled
  /\ stopper[1].pc = "finished"
  /\ task[1]["machines"] = "cancelled"
  /\ task[1]["client"] = "done"
  /\ main.pc = "exited" /\ exit_status = 0 /\ restart_count = 0

\* C27: stop() is idempotent and safe to run concurrently with itself.  No
\* invocation raises; the client of a start is closed at most once; and when an
\* invocation has returned every tracked task has ended, the client of the latest
\* start has been closed once and shutdown_event is set.
C27_StopIdempotent ==
  /\ \A i \in Invokers : stopper[i].pc # "raised"
  /\ \A r \in Runs : closes[r] <= 1
  /\ \A i \in Invokers :
       stopper[i].pc = "finished" /\ Live =>
         /\ shutdown_event
         /\ closes[starts] = 1
         /\ \A j \in 1..Len(tasks) : tasks[j][1] < starts => Terminal(TaskOf(task, j))

\* C28: single watcher per feed.  Of the tasks created for one monitor over all
\* starts at most one has not ended, and a start creates its tasks only when every
\* monitor task of the starts before has ended.
C28_SingleWatcherPerFeed ==
  /\ [](\A n \in MonitorNames : Cardinality({r \in Runs : LiveTask(task[r][n])}) <= 1)
  /\ [][starts' # starts
          => \A j \in 1..Len(tasks) : Terminal(TaskOf(task, j))]_vars

\* After a restart the machines watcher of the second start runs, and the one of
\* the first start has ended cancelled.
C28_Witness ==
  /\ starts = 2
  /\ task[1]["machines"] = "cancelled"
  /\ task[2]["machines"] = "pending"

C31_OneUnitPerFailure ==
  /\ restart_count <=
       Cardinality({r \in 1..starts : \E n \in {"client"} \cup MonitorNames : task[r][n] = "failed"})
  /\ main.pc = "wait" => restart_count = starts - 1

\* C32: stop() always runs to completion, whatever the terminal status of the
\* tracked tasks: an invocation of stop() that has ended did not raise, has left
\* the client of the latest start closed and has set the shutdown event.
C32_StopCompletes ==
  \A i \in Invokers :
    stopper[i].pc \in {"finished", "raised"} =>
      /\ stopper[i].pc = "finished"
      /\ starts > 0 => closes[starts] > 0
      /\ shutdown_event

\* C34: no spurious shutdown.  As long as no supervised task has failed and no
\* signal was received, the asyncio.wait of the Supervisor has not returned, no
\* watcher was cancelled and every started watcher task is still running (the
\* forwarder's task included).
C34_NoSpuriousShutdown ==
  NoFailure /\ ~Signalled =>
    /\ main.woke = "none"
    /\ \A i \in 1..Len(tasks) : TaskOf(task, i) = "pending"

\* C33: after stop() has returned no watcher of the service is active; in
\* particular during the restart delay that follows stop() in restart() no feed
\* watcher task and no forwarder drain loop of any start is alive.
C33_StoppedMeansQuiet ==
  main.pc = "restart_sleep" =>
    /\ \A i \in 1..Len(tasks) : ~LiveTask(TaskOf(task, i))
    /\ \A r \in Runs : ~DrainLoopAlive(r)

\* C38: at most one forwarder drain loop is alive in the process at any time,
\* restarts of the service included.
C38_SingleDrainLoop == Cardinality({r \in Runs : DrainLoopAlive(r)}) <= 1

\* The service was restarted while the drain loop of the first start is alive:
\* the second start is waiting on its tasks, its own forwarder task among them.
C38_Witness ==
  /\ starts = 2
  /\ DrainLoopAlive(1)
  /\ main.pc = "wait"
  /\ task[2]["linkwarden"] = "pending"

\* C37: a record id that occurs more than once in one fetched list is delivered at
\* most once in that poll, provided the insert of the earlier occurrence
\* succeeded: the later occurrence is examined after that insert and found in
\* the store.
C37_DuplicateInListOnce ==
  \A f \in Feeds :
    /\ \A i, j \in DOMAIN dlog[f] :
         i < j /\ dlog[f][i].id = dlog[f][j].id => ~dlog[f][i].inserted
    /\ \A i \in DOMAIN dlog[f], k \in DOMAIN examined[f] :
         /\ dlog[f][i].inserted
         /\ dlog[f][i].idx < examined[f][k].idx
         /\ HasId(examined[f][k].rec)
         /\ examined[f][k].rec.id = dlog[f][i].id
         => examined[f][k].inStore

\* A poll fetched a list holding the same unseen id twice: the first occurrence
\* was delivered and inserted, the second was examined and found in the store,
\* and the poll ended with one delivery.
C37_Witness ==
  \E f \in Feeds :
    /\ pc[f] = "sleep_interval"
    /\ Len(fetched[f]) = 2
    /\ fetched[f][1].id = fetched[f][2].id
    /\ Len(dlog[f]) = 1
    /\ dlog[f][1].idx = 1 /\ dlog[f][1].inserted /\ dlog[f][1].end = "returned"
    /\ Len(examined[f]) = 2
    /\ ~examined[f][1].inStore /\ examined[f][2].inStore

\* C35: feed liveness without head-of-line blocking.  Under fair scheduling, with
\* fetches that succeed again and again and a valid unseen record that stays in
\* the fetched list, the record is eventually delivered and in the Dedup Store,
\* even when a record listed before it raises in its delivery on every attempt.
C35_FeedLiveness ==
  <>(\A f \in enabled : deliverCount[f][MaxId] > 0 /\ MaxId \in RowIds(store[f]))

\* C36: queue liveness without head-of-line blocking.  Under fair scheduling
\* every unprocessed queue item whose forward would succeed is eventually
\* forwarded and marked processed, even when links_per_batch or more other
\* unprocessed items fail to forward on every attempt.
C36_QueueLiveness ==
  \A i \in 1..MaxLinks :
    (IF i <= Len(links) THEN links[i].link \notin Rejected ELSE FALSE)
      ~> (IF i <= Len(links) THEN links[i].processed /\ links[i].link \in forwarded ELSE FALSE)

\* C40: in the standalone scripts at most one polling loop per feed runs in a
\* process, however many times the ready event fires, so two loops are never
\* both between the existence check and the insert of the same record id.
C40_SinglePollingLoop ==
  /\ Cardinality({k \in 1..Len(script.loops) : script.loops[k].pc # "failed"}) <= 1
  /\ \A k, m \in 1..Len(script.loops) :
       /\ k # m
       /\ script.loops[k].pc = "sending"
       /\ script.loops[m].pc = "sending"
       => script.loops[k].list[script.loops[k].pos] # script.loops[m].list[script.loops[m].pos]
====
